---- MODULE Spec2Model ----
(***************************************************************************)
(* Directory-size cache engine of the disk utility's main process          *)
(* (src/unnamed/part_000, lines 802-1466): the duCache map, its lookup and *)
(* invalidation functions, the streaming du runner and the get-disk-usage  *)
(* handler that materializes one directory level.                          *)
(*                                                                         *)
(* Strings are sequences of one-character strings, so that startsWith,     *)
(* split, trim and parseInt are computed as the code computes them.        *)
(***************************************************************************)
EXTENDS Integers, Sequences, FiniteSets, TLC

VARIABLES duCache, now, ticks, lastOp, req, calls, prev, app

vars == <<duCache, now, ticks, lastOp, req, calls, prev, app>>

(***************************************************************************)
(* Program constants and model bounds                                      *)
(***************************************************************************)
CACHE_EXPIRY == 3600000

DU_TIMEOUT == 600000

\* Clock advances taken in one behaviour.
MaxTicks == 1

\* Records the cache-level specification lets the map hold.
MaxRecords == 2

\* get-disk-usage requests issued in one behaviour of the handler-level specification.
MaxCalls == 2

\* stdout chunks one du process delivers.
MaxChunks == 1

\* Entries one readdir returns.
MaxEntries == 2

(***************************************************************************)
(* Strings                                                                 *)
(***************************************************************************)
SEP == "/"

TAB == "\t"

NL == "\n"

\* String.prototype.startsWith
StartsWith(s, prefix) ==
    /\ Len(prefix) <= Len(s)
    /\ SubSeq(s, 1, Len(prefix)) = prefix

\* String.prototype.indexOf for a one-character needle, 1-based; 0 when absent
\* (JavaScript's -1).
IndexOf(s, ch) ==
    IF \E i \in 1..Len(s) : s[i] = ch
    THEN CHOOSE i \in 1..Len(s) : s[i] = ch /\ \A j \in 1..(i - 1) : s[j] # ch
    ELSE 0

\* String.prototype.split for a one-character separator.
RECURSIVE Split(_, _)
Split(s, ch) ==
    LET i == IndexOf(s, ch)
    IN  IF i = 0 THEN <<s>>
        ELSE <<SubSeq(s, 1, i - 1)>> \o Split(SubSeq(s, i + 1, Len(s)), ch)

IsSpace(ch) == ch \in {" ", TAB, NL}

\* String.prototype.trim
RECURSIVE TrimLeft(_)
TrimLeft(s) ==
    IF s # <<>> /\ IsSpace(s[1]) THEN TrimLeft(Tail(s)) ELSE s

RECURSIVE TrimRight(_)
TrimRight(s) ==
    IF s # <<>> /\ IsSpace(s[Len(s)]) THEN TrimRight(SubSeq(s, 1, Len(s) - 1)) ELSE s

Trim(s) == TrimRight(TrimLeft(s))

(***************************************************************************)
(* Paths (node's path module, POSIX)                                       *)
(***************************************************************************)
\* process.cwd(), which path.resolve prepends to a relative path.
Cwd == <<"/">>

\* path.resolve's normalizeString: "" and "." segments dropped, ".." pops.
RECURSIVE NormalizeSegments(_, _)
NormalizeSegments(segs, acc) ==
    IF segs = <<>> THEN acc
    ELSE LET h == Head(segs)
         IN  IF h = <<>> \/ h = <<".">>
             THEN NormalizeSegments(Tail(segs), acc)
             ELSE IF h = <<".", ".">>
                  THEN NormalizeSegments(Tail(segs),
                           IF acc = <<>> THEN acc ELSE SubSeq(acc, 1, Len(acc) - 1))
                  ELSE NormalizeSegments(Tail(segs), Append(acc, h))

RECURSIVE JoinSegments(_)
JoinSegments(segs) ==
    IF segs = <<>> THEN <<>>
    ELSE <<SEP>> \o Head(segs) \o JoinSegments(Tail(segs))

\* path.resolve(p): an absolute path without "." / ".." / empty segments and
\* without a trailing separator; "/" for the root.
PathResolve(p) ==
    LET full == IF p # <<>> /\ p[1] = SEP THEN p ELSE Cwd \o <<SEP>> \o p
        segs == NormalizeSegments(Split(full, SEP), <<>>)
    IN  IF segs = <<>> THEN <<SEP>> ELSE JoinSegments(segs)

\* path.join(dir, entry) for an absolute dir and an entry name.
PathJoin(dir, entry) == PathResolve(dir \o <<SEP>> \o entry)

\* A variant that drops the last character, whatever it is.
StripTrailingSeps_Chop(s) == IF s = <<>> THEN s ELSE SubSeq(s, 1, Len(s) - 1)

\* String.prototype.replace(/\/+$/, '')
RECURSIVE StripTrailingSeps(_)
StripTrailingSeps(s) ==
    IF s # <<>> /\ s[Len(s)] = SEP
    THEN StripTrailingSeps(SubSeq(s, 1, Len(s) - 1))
    ELSE s

\* normalizePath
normalizePath(filePath) ==
    LET resolved == PathResolve(filePath)
        stripped == StripTrailingSeps(resolved)
    IN  IF stripped = <<>> THEN <<SEP>> ELSE stripped

(***************************************************************************)
(* The paths requests are issued for                                       *)
(***************************************************************************)
P_root == <<"/">>

P_a == <<"/", "a">>

P_aSlash == <<"/", "a", "/">>

P_a_b == <<"/", "a", "/", "b">>

P_ab == <<"/", "a", "b">>

Dirs == {P_root, P_a, P_aSlash, P_a_b, P_ab}

(***************************************************************************)
(* duCache: a JavaScript Map, modelled as the sequence of its entries in   *)
(* insertion order. An entry is [root, sizeMap, timestamp]; a sizeMap is a *)
(* function from paths to byte counts.                                     *)
(***************************************************************************)
\* null, as findCachedRoot returns it; like null it is falsy (the empty string).
NoRoot == <<>>

EmptyMap == <<>>

MapHas(cache, key) == \E i \in 1..Len(cache) : cache[i].root = key

MapIndex(cache, key) == CHOOSE i \in 1..Len(cache) : cache[i].root = key

MapGet(cache, key) == cache[MapIndex(cache, key)]

\* A set that stores nothing.
MapSet_Dropped(cache, key, sizeMap, timestamp) == cache

\* Map.prototype.set: an existing key keeps its place in the iteration order.
MapSet(cache, key, sizeMap, timestamp) ==
    LET rec == [root |-> key, sizeMap |-> sizeMap, timestamp |-> timestamp]
    IN  IF MapHas(cache, key)
        THEN [cache EXCEPT ![MapIndex(cache, key)] = rec]
        ELSE Append(cache, rec)

\* Map.prototype.delete
MapDelete(cache, key) == SelectSeq(cache, LAMBDA rec : rec.root # key)

\* isDuCacheValid without the eviction of an expired entry.
isDuCacheValid_NoEvict(cache, t, rootPath) ==
    IF ~MapHas(cache, rootPath)
    THEN [valid |-> FALSE, cache |-> cache]
    ELSE [valid |-> (t - MapGet(cache, rootPath).timestamp) < CACHE_EXPIRY,
          cache |-> cache]

\* isDuCacheValid(rootPath) at clock reading t: the answer and the map it leaves.
isDuCacheValid(cache, t, rootPath) ==
    IF ~MapHas(cache, rootPath)
    THEN [valid |-> FALSE, cache |-> cache]
    ELSE LET cached == MapGet(cache, rootPath)
             isValid == (t - cached.timestamp) < CACHE_EXPIRY
         IN  [valid |-> isValid,
              cache |-> IF isValid THEN cache ELSE MapDelete(cache, rootPath)]

\* clearDuCache
clearDuCache(cache) == <<>>

\* The invalidation test on bare string prefixes, without the separator.
InvalidateTest_BarePrefix(normalizedTarget, normalizedRoot) ==
    \/ StartsWith(normalizedTarget, normalizedRoot)
    \/ StartsWith(normalizedRoot, normalizedTarget)

\* The test of invalidateDuCache's loop body for one cached root.
InvalidateTest(normalizedTarget, normalizedRoot) ==
    \/ normalizedTarget = normalizedRoot
    \/ StartsWith(normalizedTarget, normalizedRoot \o <<SEP>>)
    \/ StartsWith(normalizedRoot, normalizedTarget \o <<SEP>>)

\* invalidateDuCache(targetPath): the map after the toDelete roots are deleted.
invalidateDuCache(cache, targetPath) ==
    LET normalizedTarget == normalizePath(targetPath)
    IN  SelectSeq(cache,
            LAMBDA rec : ~InvalidateTest(normalizedTarget, normalizePath(rec.root)))

\* The covering test on a bare string prefix, without the separator.
CoverTest_BarePrefix(normalizedTarget, normalizedRoot) ==
    StartsWith(normalizedTarget, normalizedRoot)

\* The covering test of findCachedRoot's loop body for one cached root.
CoverTest(normalizedTarget, normalizedRoot) ==
    \/ normalizedTarget = normalizedRoot
    \/ StartsWith(normalizedTarget, normalizedRoot \o <<SEP>>)

\* The validity test with the boundary off by one: an entry exactly
\* CACHE_EXPIRY old is still used.
FindSkipsExpired_OffByOne(t, timestamp) == (t - timestamp) > CACHE_EXPIRY

\* The validity test of findCachedRoot's loop body: TRUE when the entry is skipped.
FindSkipsExpired(t, timestamp) == (t - timestamp) >= CACHE_EXPIRY

\* The replacement test of findCachedRoot's running best match.
BetterMatch(rootLength, bestMatchLength) == rootLength > bestMatchLength

\* findCachedRoot's loop from entry i on, with its running best match.
RECURSIVE FindLoop(_, _, _, _, _, _)
FindLoop(cache, i, t, normalizedTarget, bestMatch, bestMatchLength) ==
    IF i > Len(cache) THEN bestMatch
    ELSE LET cachedRoot == cache[i].root
             normalizedRoot == normalizePath(cachedRoot)
         IN  IF FindSkipsExpired(t, cache[i].timestamp)
             THEN FindLoop(cache, i + 1, t, normalizedTarget, bestMatch, bestMatchLength)
             ELSE IF /\ CoverTest(normalizedTarget, normalizedRoot)
                     /\ BetterMatch(Len(normalizedRoot), bestMatchLength)
                  THEN FindLoop(cache, i + 1, t, normalizedTarget,
                                cachedRoot, Len(normalizedRoot))
                  ELSE FindLoop(cache, i + 1, t, normalizedTarget,
                                bestMatch, bestMatchLength)

\* findCachedRoot(targetPath) at clock reading t.
findCachedRoot(cache, t, targetPath) ==
    FindLoop(cache, 1, t, normalizePath(targetPath), NoRoot, 0)

(***************************************************************************)
(* The clock (Date.now(), in milliseconds)                                 *)
(***************************************************************************)
TickSteps == {CACHE_EXPIRY - 1, CACHE_EXPIRY}

Tick ==
    /\ ticks < MaxTicks
    /\ \A r \in DOMAIN req : req[r].pc \notin {"listing", "leaf"}
    /\ \E d \in TickSteps : now' = now + d
    /\ ticks' = ticks + 1
    /\ lastOp' = [op |-> "none"]
    /\ UNCHANGED <<app, duCache, req, calls, prev>>

(***************************************************************************)
(* Cache-level specification: the cache store's operations (get, put,      *)
(* findCoveringRoot, invalidate, clear) applied in any order. lastOp       *)
(* records the last operation: its argument, its result, the map before it *)
(* and the clock reading it used.                                          *)
(***************************************************************************)
\* Mappings a finished scan of rootPath may have produced: here one entry, for
\* the directory b beneath the scanned root.
StoredMaps(rootPath) == {(PathJoin(rootPath, <<"b">>) :> 2048)}

\* getAllDirectorySizes' cache check: isDuCacheValid, then duCache.get(root).sizeMap.
CacheGet(rootPath) ==
    LET res == isDuCacheValid(duCache, now, rootPath)
    IN  /\ duCache' = res.cache
        /\ lastOp' = [op |-> "get", arg |-> rootPath, before |-> duCache, at |-> now,
                      hit |-> res.valid,
                      ret |-> IF res.valid THEN MapGet(duCache, rootPath).sizeMap
                              ELSE EmptyMap]
        /\ UNCHANGED <<app, now, ticks, req, calls, prev>>

\* getAllDirectorySizes' duCache.set(rootPath, {sizeMap, timestamp: Date.now()}).
CachePut(rootPath, sizeMap) ==
    /\ MapHas(duCache, rootPath) \/ Len(duCache) < MaxRecords
    /\ duCache' = MapSet(duCache, rootPath, sizeMap, now)
    /\ lastOp' = [op |-> "put", arg |-> rootPath, before |-> duCache, at |-> now]
    /\ UNCHANGED <<app, now, ticks, req, calls, prev>>

CacheFind(targetPath) ==
    /\ lastOp' = [op |-> "find", arg |-> targetPath, before |-> duCache, at |-> now,
                  ret |-> findCachedRoot(duCache, now, targetPath)]
    /\ UNCHANGED <<app, duCache, now, ticks, req, calls, prev>>

CacheInvalidate(targetPath) ==
    /\ duCache' = invalidateDuCache(duCache, targetPath)
    /\ lastOp' = [op |-> "invalidate", arg |-> targetPath, before |-> duCache, at |-> now]
    /\ UNCHANGED <<app, now, ticks, req, calls, prev>>

CacheClear ==
    /\ duCache' = clearDuCache(duCache)
    /\ lastOp' = [op |-> "clear", before |-> duCache, at |-> now]
    /\ UNCHANGED <<app, now, ticks, req, calls, prev>>

\* The get-disk-usage requests that may be in flight at once.
Slots == {1, 2}

IdleReq == [pc |-> "idle"]

NoCall == [dirPath |-> <<>>, storedAt |-> 0]

\* null, for the renderer's progressStartTime.
Null == -1

\* this.data before the first listing arrives ([]).
NoData == [path |-> <<>>]

\* What the treemap and the file list show.
Blank == [kind |-> "blank"]

\* The renderer (DiskUtilityApp) after its constructor.
NewApp ==
    [currentPath |-> P_root, data |-> NoData, cache |-> <<>>,
     progressStartTime |-> Null, shown |-> Blank]

Init ==
    /\ duCache = <<>>
    /\ now = 0
    /\ ticks = 0
    /\ lastOp = [op |-> "none"]
    /\ req = [r \in Slots |-> IdleReq]
    /\ calls = 0
    /\ prev = NoCall
    /\ app = NewApp

NextCache ==
    \/ \E p \in Dirs : CacheGet(p)
    \/ \E p \in Dirs : \E m \in StoredMaps(p) : CachePut(p, m)
    \/ \E p \in Dirs : CacheFind(p)
    \/ \E p \in Dirs : CacheInvalidate(p)
    \/ CacheClear
    \/ Tick

SpecCache == Init /\ [][NextCache]_vars

(***************************************************************************)
(* Path relations the claims are stated in: by directory components, not   *)
(* by string prefix.                                                       *)
(***************************************************************************)
Components(p) == NormalizeSegments(Split(p, SEP), <<>>)

IsSeqPrefix(a, b) == Len(a) <= Len(b) /\ SubSeq(b, 1, Len(a)) = a

\* a is p itself or a directory above it.
AncestorOrSelf(a, p) == IsSeqPrefix(Components(a), Components(p))

SamePath(a, b) == Components(a) = Components(b)

StrictAncestor(a, p) == AncestorOrSelf(a, p) /\ ~SamePath(a, p)

Related(a, b) == AncestorOrSelf(a, b) \/ AncestorOrSelf(b, a)

Records(cache) == {cache[i] : i \in 1..Len(cache)}

Roots(cache) == {cache[i].root : i \in 1..Len(cache)}

ValidAt(rec, t) == t - rec.timestamp < CACHE_EXPIRY

\* The valid records of cache whose root is p or above p.
Covering(cache, t, p) ==
    {rec \in Records(cache) : ValidAt(rec, t) /\ AncestorOrSelf(rec.root, p)}

IsFind == lastOp.op = "find"

IsGet == lastOp.op = "get"

IsInvalidate == lastOp.op = "invalidate"

\* C1: findCoveringRoot(p) returns, among the valid records whose root is p or
\* an ancestor of p, one with the longest normalized root.
C1_LongestCoveringRoot ==
    IsFind =>
        LET cov == Covering(lastOp.before, lastOp.at, lastOp.arg)
        IN  cov # {} =>
                /\ lastOp.ret \in {rec.root : rec \in cov}
                /\ \A rec \in cov :
                       Len(normalizePath(rec.root)) <= Len(normalizePath(lastOp.ret))

\* C2: findCoveringRoot(p) returns nothing or the root of a record of the cache
\* that is p or an ancestor of p; nothing when no valid record covers p.
C2_ReturnsCoveringRootOrNothing ==
    IsFind =>
        /\ lastOp.ret # NoRoot =>
               /\ lastOp.ret \in Roots(duCache)
               /\ AncestorOrSelf(lastOp.ret, lastOp.arg)
               /\ ~StrictAncestor(lastOp.arg, lastOp.ret)
        /\ Covering(lastOp.before, lastOp.at, lastOp.arg) = {} => lastOp.ret = NoRoot

\* A find that returned a covering root while the cache also held a record
\* rooted strictly below the query path.
C2_Witness ==
    /\ IsFind
    /\ lastOp.ret # NoRoot
    /\ \E rec \in Records(duCache) :
           ValidAt(rec, now) /\ StrictAncestor(lastOp.arg, rec.root)

\* C3: a record with now - timestamp >= 3600 s is never returned: get(root)
\* misses and findCoveringRoot does not select it; both use the same boundary.
C3_ExpiredNeverReturned ==
    /\ IsFind /\ lastOp.ret # NoRoot =>
           ValidAt(MapGet(lastOp.before, lastOp.ret), lastOp.at)
    /\ IsGet /\ MapHas(lastOp.before, lastOp.arg)
             /\ ~ValidAt(MapGet(lastOp.before, lastOp.arg), lastOp.at) =>
           ~lastOp.hit

\* A lookup at the boundary: the record that structurally covers the query is
\* exactly 3600 s old and is not returned.
C3_Witness ==
    \/ /\ IsFind
       /\ lastOp.ret = NoRoot
       /\ \E rec \in Records(lastOp.before) :
              /\ CoverTest(normalizePath(lastOp.arg), normalizePath(rec.root))
              /\ lastOp.at - rec.timestamp = CACHE_EXPIRY
    \/ /\ IsGet
       /\ ~lastOp.hit
       /\ MapHas(lastOp.before, lastOp.arg)
       /\ lastOp.at - MapGet(lastOp.before, lastOp.arg).timestamp = CACHE_EXPIRY

\* C4: get(root) on an expired record removes that record and leaves every
\* other record as it was; on a valid record or an absent root it leaves the
\* cache unchanged.
C4_GetEvictsOnlyExpired ==
    IsGet =>
        IF MapHas(lastOp.before, lastOp.arg)
           /\ ~ValidAt(MapGet(lastOp.before, lastOp.arg), lastOp.at)
        THEN /\ ~MapHas(duCache, lastOp.arg)
             /\ duCache = SelectSeq(lastOp.before, LAMBDA rec : rec.root # lastOp.arg)
        ELSE duCache = lastOp.before

\* A get that evicted an expired record while another record stayed.
C4_Witness ==
    /\ IsGet
    /\ MapHas(lastOp.before, lastOp.arg)
    /\ ~MapHas(duCache, lastOp.arg)
    /\ Len(duCache) >= 1

\* C5: invalidate(target) removes every record whose root is the target, an
\* ancestor of it or a descendant of it, expired or not.
C5_InvalidateRemovesRelated ==
    IsInvalidate =>
        \A rec \in Records(lastOp.before) :
            Related(rec.root, lastOp.arg) => ~MapHas(duCache, rec.root)

\* C6: invalidate(target) leaves every record whose root is unrelated to the
\* target as it was, in place; it changes nothing when no record is related.
C6_InvalidateKeepsUnrelated ==
    IsInvalidate =>
        /\ SelectSeq(lastOp.before, LAMBDA rec : ~Related(rec.root, lastOp.arg))
               = SelectSeq(duCache, LAMBDA rec : ~Related(rec.root, lastOp.arg))
        /\ \A rec \in Records(duCache) : rec \in Records(lastOp.before)
        /\ (\A rec \in Records(lastOp.before) : ~Related(rec.root, lastOp.arg))
               => duCache = lastOp.before

\* An invalidate that removed a record and kept one whose root only shares a
\* string prefix with the target.
C6_Witness ==
    /\ IsInvalidate
    /\ Len(duCache) < Len(lastOp.before)
    /\ \E rec \in Records(duCache) :
           /\ ~Related(rec.root, lastOp.arg)
           /\ \/ StartsWith(normalizePath(rec.root), normalizePath(lastOp.arg))
              \/ StartsWith(normalizePath(lastOp.arg), normalizePath(rec.root))

(***************************************************************************)
(* The streaming du runner (executeDuWithProgress): the state of one du    *)
(* process is its partial-line buffer, its sizeMap and its lineCount.      *)
(***************************************************************************)
\* NaN as a stored byte count. A parsed size is stored multiplied by 1024, so
\* no number the parser stores equals this value.
NaN == -1

Digits == {"0", "1", "2", "3", "4", "5", "6", "7", "8", "9"}

DigitValue(ch) ==
    CASE ch = "0" -> 0 [] ch = "1" -> 1 [] ch = "2" -> 2 [] ch = "3" -> 3
      [] ch = "4" -> 4 [] ch = "5" -> 5 [] ch = "6" -> 6 [] ch = "7" -> 7
      [] ch = "8" -> 8 [] ch = "9" -> 9

\* The value of the longest prefix of decimal digits of s, continuing from acc.
RECURSIVE DigitsValue(_, _)
DigitsValue(s, acc) ==
    IF s # <<>> /\ s[1] \in Digits
    THEN DigitsValue(Tail(s), acc * 10 + DigitValue(s[1]))
    ELSE acc

\* parseInt(s): leading white space skipped, an optional sign, then the longest
\* prefix of digits; NaN when there is no digit.
ParseInt(s) ==
    LET t == TrimLeft(s)
        signed == t # <<>> /\ t[1] \in {"+", "-"}
        body == IF signed THEN Tail(t) ELSE t
    IN  IF body = <<>> \/ body[1] \notin Digits
        THEN [nan |-> TRUE, value |-> 0]
        ELSE [nan |-> FALSE,
              value |-> IF signed /\ t[1] = "-" THEN 0 - DigitsValue(body, 0)
                        ELSE DigitsValue(body, 0)]

\* sizeKB * 1024, NaN staying NaN.
SizeBytes(sizeKB) == IF sizeKB.nan THEN NaN ELSE sizeKB.value * 1024

\* Map.prototype.set on a sizeMap.
SizeMapSet(sizeMap, filePath, sizeBytes) ==
    [k \in DOMAIN sizeMap \cup {filePath} |->
        IF k = filePath THEN sizeBytes ELSE sizeMap[k]]

NewDu == [buffer |-> <<>>, sizeMap |-> EmptyMap, lineCount |-> 0]

\* The body of the data handler's loop for one complete line.
ParseLine(du, line) ==
    IF Trim(line) = <<>> THEN du
    ELSE LET parts == Split(line, TAB)
         IN  IF Len(parts) >= 2
             THEN [du EXCEPT
                      !.sizeMap = SizeMapSet(du.sizeMap, parts[2], SizeBytes(ParseInt(parts[1]))),
                      !.lineCount = du.lineCount + 1]
             ELSE du

\* The data handler's while loop over the complete lines of the buffer.
RECURSIVE DrainLines(_)
DrainLines(du) ==
    LET newlineIndex == IndexOf(du.buffer, NL)
    IN  IF newlineIndex = 0 THEN du
        ELSE DrainLines(ParseLine(
                 [du EXCEPT !.buffer = SubSeq(du.buffer, newlineIndex + 1, Len(du.buffer))],
                 SubSeq(du.buffer, 1, newlineIndex - 1)))

\* A variant that forgets the partial line of the chunks before.
OnData_NoBuffer(du, data) == DrainLines([du EXCEPT !.buffer = data])

\* duProcess.stdout.on('data'): append the chunk, parse the complete lines.
OnData(du, data) == DrainLines([du EXCEPT !.buffer = du.buffer \o data])

\* The close handler's flush of the unterminated rest of the buffer.
FlushBuffer(du) ==
    IF Trim(du.buffer) = <<>> THEN du
    ELSE LET parts == Split(Trim(du.buffer), TAB)
         IN  IF Len(parts) >= 2
             THEN [du EXCEPT
                      !.sizeMap = SizeMapSet(du.sizeMap, parts[2], SizeBytes(ParseInt(parts[1]))),
                      !.lineCount = du.lineCount + 1]
             ELSE du

\* The stdout chunks a du process may deliver: the lines "2<TAB>/a/b" and
\* "5<TAB>/a", a line whose size field is not a number, and a line the output
\* ends on without a newline.
ChunkOk == <<"2", TAB, "/", "a", "/", "b", NL, "5", TAB, "/", "a", NL>>

ChunkNonNumeric == <<"x", TAB, "/", "a", "/", "b", NL>>

ChunkUnterminated == <<"3", TAB, "/", "a", "/", "b">>

Chunks == {ChunkOk, ChunkNonNumeric, ChunkUnterminated}

\* Exit codes of a du process that exits by itself.
ExitCodes == {0, 2}

(***************************************************************************)
(* Directory listing (fs.readdir and fs.stat of each entry)                *)
(***************************************************************************)
\* What readdir may list, with what fs.stat answers for the entry: a regular
\* file, a directory, a hidden file, an entry whose stat throws, and an entry
\* that is neither file nor directory (a socket).
EntryFile == [name |-> <<"f">>, stat |-> "file", size |-> 100]

EntryDir == [name |-> <<"b">>, stat |-> "directory", size |-> 64]

EntryHidden == [name |-> <<".", "h">>, stat |-> "file", size |-> 7]

EntryStatFails == [name |-> <<"g">>, stat |-> "throws", size |-> 0]

EntrySocket == [name |-> <<"s">>, stat |-> "other", size |-> 0]

EntryKinds == {EntryFile, EntryDir, EntryHidden, EntryStatFails, EntrySocket}

\* readdir results: the sequences of distinct entries of at most MaxEntries.
Listings ==
    UNION {{l \in [1..n -> EntryKinds] : \A i, j \in 1..n : i # j => l[i] # l[j]}
           : n \in 0..MaxEntries}

\* path.basename
Basename(p) ==
    LET s == StripTrailingSeps(p)
        segs == Split(s, SEP)
    IN  IF s = <<>> THEN <<>> ELSE segs[Len(segs)]

\* path.basename(dirPath) || dirPath
NodeName(dirPath) == IF Basename(dirPath) = <<>> THEN dirPath ELSE Basename(dirPath)

\* A variant that types the node as a file.
EmptyNode_FileTyped(dirPath) ==
    [name |-> dirPath, path |-> dirPath, size |-> 0, type |-> "file", children |-> <<>>]

\* The node returned for a non-directory and from the catch block.
EmptyNode(dirPath) ==
    [name |-> NodeName(dirPath), path |-> dirPath, size |-> 0,
     type |-> "directory", children |-> <<>>]

\* sizeMap.get(fullPath) || 0
DirSize(sizeMap, fullPath) ==
    IF fullPath \notin DOMAIN sizeMap THEN 0
    ELSE IF sizeMap[fullPath] = NaN THEN 0
    ELSE sizeMap[fullPath]

\* A variant that hides nothing.
IsHidden_Never(entry) == FALSE

\* The hidden-entry test of the listing loop.
IsHidden(entry) == StartsWith(entry.name, <<".">>)

\* The child pushed for one entry whose stat reports a regular file.
FileChild(entry, fullPath) ==
    [name |-> entry.name, path |-> fullPath, size |-> entry.size, type |-> "file"]

\* The child pushed for one entry whose stat reports a directory.
DirChild(entry, fullPath, sizeMap) ==
    [name |-> entry.name, path |-> fullPath, size |-> DirSize(sizeMap, fullPath),
     type |-> "directory"]

\* What the listing loop's body does with one entry: the children after it.
VisitEntry(children, dirPath, entry, sizeMap) ==
    IF IsHidden(entry) THEN children
    ELSE LET fullPath == PathJoin(dirPath, entry.name)
         IN  CASE entry.stat = "throws" -> children
               [] entry.stat = "file" -> Append(children, FileChild(entry, fullPath))
               [] entry.stat = "directory" ->
                      Append(children, DirChild(entry, fullPath, sizeMap))
               [] OTHER -> children

\* The listing loop from entry i on.
RECURSIVE ListChildren(_, _, _, _, _)
ListChildren(dirPath, entries, i, sizeMap, children) ==
    IF i > Len(entries) THEN children
    ELSE ListChildren(dirPath, entries, i + 1, sizeMap,
                      VisitEntry(children, dirPath, entries[i], sizeMap))

\* children.reduce((sum, child) => sum + child.size, 0)
RECURSIVE SumSizes(_)
SumSizes(children) ==
    IF children = <<>> THEN 0
    ELSE SumSizes(SubSeq(children, 1, Len(children) - 1)) + children[Len(children)].size

\* A variant that reports the mapping's own entry for dirPath.
NodeSize_FromMap(dirPath, children, sizeMap) == DirSize(sizeMap, dirPath)

\* The size of the returned directory node.
NodeSize(dirPath, children, sizeMap) == SumSizes(children)

\* The node getDirectoryContents returns for a directory.
DirectoryNode(dirPath, entries, sizeMap) ==
    LET children == ListChildren(dirPath, entries, 1, sizeMap, <<>>)
    IN  [name |-> NodeName(dirPath), path |-> dirPath,
         size |-> NodeSize(dirPath, children, sizeMap),
         type |-> "directory", children |-> children]

(***************************************************************************)
(* Handler-level specification: the get-disk-usage, invalidate-du-cache    *)
(* and clear-du-cache handlers, the events that end a du process, and the  *)
(* clock. The data events of a du process change only that process's own   *)
(* buffer and sizeMap, so they are taken together with the close event     *)
(* that ends it. A request whose sizeMap is known ("listing", or "leaf"    *)
(* when there is nothing to list) touches the cache no more: its listing   *)
(* and reply are taken before the next event.                              *)
(* prev is the last request that ran with no other request in flight,      *)
(* started exactly one scan and stored its result; an invalidation or a    *)
(* clear forgets it.                                                       *)
(***************************************************************************)
ReplyPending(r) == req[r].pc \in {"listing", "leaf"}

NoReplyPending == \A r \in Slots : ~ReplyPending(r)

\* The paths get-disk-usage and invalidate-du-cache are called with.
RequestDirs == {P_a, P_aSlash, P_a_b}

\* What fs.stat(dirPath) may answer.
StatOutcomes == {"directory", "file", "throws"}

\* Sequences of at most n stdout chunks.
RECURSIVE ChunkSeqs(_)
ChunkSeqs(n) ==
    IF n = 0 THEN {<<>>}
    ELSE ChunkSeqs(n - 1)
           \cup {Append(cs, c) : cs \in {x \in ChunkSeqs(n - 1) : Len(x) = n - 1}, c \in Chunks}

\* The whole stdout of a du process, as the handler-level specification draws
\* it: nothing, or two well-formed lines (the parsing of every other output
\* is the subject of the runner and listing specifications).
DuOutputs == {<<>>, <<ChunkOk>>}

\* The du state after the data events of the chunks cs.
RECURSIVE AfterData(_, _)
AfterData(du, cs) ==
    IF cs = <<>> THEN du ELSE AfterData(OnData(du, Head(cs)), Tail(cs))

\* The sizeMap a du process resolves with after the chunks cs and exit code 0.
ResolvedMap(cs) == FlushBuffer(AfterData(NewDu, cs)).sizeMap

\* A variant that takes every failure for a volume problem.
WantsFallback_Always(failure) == TRUE

\* Whether getAllDirectorySizes' catch block retries without -a: the message
\* of the error it caught names a volume problem (of the errors the runner
\* rejects with, only the timeout's message does).
WantsFallback(failure) == failure = "timed out"

\* The other requests in flight learn that they no longer run alone.
Overlapped(r, new) ==
    [q \in Slots |->
        IF q = r THEN new
        ELSE IF req[q].pc = "scan" THEN [req[q] EXCEPT !.alone = FALSE]
        ELSE req[q]]

\* The request once getAllDirectorySizes has returned sizeMap.
Listing(call, sizeMap) ==
    [pc |-> "listing", dirPath |-> call.dirPath, root |-> call.root,
     scans |-> call.scans, stored |-> call.stored, storedAt |-> call.storedAt,
     hit |-> call.hit, served |-> call.served, alone |-> call.alone,
     second |-> call.second, first |-> call.first, failures |-> call.failures,
     rival |-> call.rival, outdated |-> call.outdated, sizeMap |-> sizeMap]

\* The request once fs.stat(dirPath) has thrown or answered something that is
\* no directory: no scan, a reply pending; cacheBefore is the cache the request
\* found.
Leaf(dirPath, stat, cache) ==
    [pc |-> "leaf", dirPath |-> dirPath, stat |-> stat, scans |-> 0, cacheBefore |-> cache]

\* A variant of the catch blocks that caches the empty Map they return.
CacheAfterReject_StoresEmpty(cache, call, t) == MapSet(cache, call.root, EmptyMap, t)

\* duCache after getAllDirectorySizes' catch blocks: neither calls
\* duCache.set, whether the fallback is started or the empty Map returned.
CacheAfterReject(cache, call, t) == cache

\* Whether the du process of a run that rejected with message was killed
\* rather than closed: duProcess.kill() in the timer callback sends the signal
\* and returns; the process exits, and its close event comes, later.
Killed(message) == message = "timed out"

\* A variant of the catch block that retries after every failure.
AfterReject_AlwaysRetry(call, message, t) ==
    [call EXCEPT !.includeFiles = FALSE, !.scans = call.scans + 1, !.started = t,
                 !.failures = Append(call.failures, message),
                 !.orphan = Killed(message)]

\* getAllDirectorySizes' catch blocks, entered at time t with the error the
\* runner rejected with: after the first scan (includeFiles) a failure that
\* wants the fallback starts the directories-only scan; any other failure, and
\* every failure of the fallback scan, returns an empty Map. orphan tells
\* whether the first run's process, killed, is still to exit when the
\* fallback's process is spawned.
AfterReject(call, message, t) ==
    IF call.includeFiles /\ WantsFallback(message)
    THEN [call EXCEPT !.includeFiles = FALSE, !.scans = call.scans + 1, !.started = t,
                      !.failures = Append(call.failures, message),
                      !.orphan = Killed(message)]
    ELSE Listing([call EXCEPT !.failures = Append(call.failures, message)], EmptyMap)

\* ipcMain.handle('get-disk-usage'): getDiskUsage -> getDirectoryContents up to
\* the point where it waits for du (or, on a cache hit, has its sizeMap). skew
\* is the time between findCachedRoot's and isDuCacheValid's clock readings.
GetDiskUsage(r, dirPath) ==
    /\ req[r].pc = "idle"
    /\ \A q \in Slots : q < r => req[q].pc # "idle"
    /\ NoReplyPending
    /\ calls < MaxCalls
    /\ calls' = calls + 1
    /\ UNCHANGED <<app, ticks, lastOp, prev>>
    /\ \E stat \in StatOutcomes :
        IF stat # "directory"
        THEN /\ req' = [req EXCEPT ![r] = Leaf(dirPath, stat, duCache)]
             /\ UNCHANGED <<duCache, now>>
        ELSE \E skew \in {0, 1} :
             LET found == findCachedRoot(duCache, now, dirPath)
                 duRootPath == IF found = NoRoot THEN dirPath ELSE found
                 res == isDuCacheValid(duCache, now + skew, duRootPath)
                 isSecond == /\ prev.dirPath = dirPath
                             /\ (now + skew) - prev.storedAt < CACHE_EXPIRY
                 call == [dirPath |-> dirPath, root |-> duRootPath,
                          scans |-> IF res.valid THEN 0 ELSE 1,
                          stored |-> FALSE, storedAt |-> 0,
                          hit |-> res.valid,
                          served |-> IF res.valid
                                     THEN MapGet(duCache, duRootPath).timestamp ELSE 0,
                          alone |-> \A q \in Slots : req[q].pc = "idle",
                          second |-> isSecond,
                          first |-> IF isSecond THEN prev.storedAt ELSE 0,
                          failures |-> <<>>, rival |-> FALSE, outdated |-> FALSE]
             IN  /\ now' = now + skew
                 /\ duCache' = res.cache
                 /\ req' = Overlapped(r,
                        IF res.valid
                        THEN Listing(call, MapGet(duCache, duRootPath).sizeMap)
                        ELSE [pc |-> "scan", includeFiles |-> TRUE,
                              started |-> now + skew, orphan |-> FALSE] @@ call)

\* Whether cache holds a record for the directory of call's root that was
\* stored since call's scan started: the record of another scan of that
\* directory that was in flight together with call's.
StoredMeanwhile(cache, call) ==
    \E i \in 1..Len(cache) :
        /\ normalizePath(cache[i].root) = normalizePath(call.root)
        /\ cache[i].timestamp >= call.started

\* duProcess.on('close') with exit code 0, after the data events of the
\* output: flush, resolve; getAllDirectorySizes stores the mapping.
DuCloseOk(r, output) ==
    /\ req[r].pc = "scan"
    /\ NoReplyPending
    /\ LET sizeMap == ResolvedMap(output)
       IN  /\ duCache' = MapSet(duCache, req[r].root, sizeMap, now)
           /\ req' = [req EXCEPT ![r] =
                  Listing([req[r] EXCEPT !.stored = TRUE, !.storedAt = now,
                                         !.rival = StoredMeanwhile(duCache, req[r])],
                          sizeMap)]
    /\ UNCHANGED <<app, now, ticks, lastOp, calls, prev>>

\* duProcess.on('close') with a non-zero exit code: reject; the catch block
\* does not retry and returns an empty Map.
DuCloseFailed(r, code) ==
    /\ req[r].pc = "scan"
    /\ NoReplyPending
    /\ code # 0
    /\ req' = [req EXCEPT ![r] = AfterReject(req[r], "failed with code", now)]
    /\ duCache' = CacheAfterReject(duCache, req[r], now)
    /\ UNCHANGED <<app, now, ticks, lastOp, calls, prev>>

\* duProcess.on('error'): the process could not be spawned; reject; the catch
\* block does not retry and returns an empty Map.
DuError(r) ==
    /\ req[r].pc = "scan"
    /\ NoReplyPending
    /\ req' = [req EXCEPT ![r] = AfterReject(req[r], "spawn error", now)]
    /\ duCache' = CacheAfterReject(duCache, req[r], now)
    /\ UNCHANGED <<app, now, ticks, lastOp, calls, prev>>

\* The 10-minute timer: kill, reject with the timeout error. After the first
\* scan the catch block starts the directories-only scan; after that one it
\* returns an empty Map.
DuTimeout(r) ==
    /\ req[r].pc = "scan"
    /\ NoReplyPending
    /\ now - req[r].started >= DU_TIMEOUT
    /\ req' = [req EXCEPT ![r] = AfterReject(req[r], "timed out", now)]
    /\ duCache' = CacheAfterReject(duCache, req[r], now)
    /\ UNCHANGED <<app, now, ticks, lastOp, calls, prev>>

\* The close event of the first run's process, killed by the timer, while the
\* fallback run is in progress: the process has exited. Its handlers flush
\* into the first run's own Map, reject a promise that is already rejected
\* and clear a timer that has fired.
DuKilledClose(r) ==
    /\ req[r].pc = "scan"
    /\ req[r].orphan
    /\ req' = [req EXCEPT ![r].orphan = FALSE]
    /\ UNCHANGED <<app, duCache, now, ticks, lastOp, calls, prev>>

\* The node getDirectoryContents returns for request r when readdir answers
\* entries (listed) or throws (~listed).
ReplyNode(r, listed, entries) ==
    IF req[r].pc = "listing" /\ listed
    THEN DirectoryNode(req[r].dirPath, entries, req[r].sizeMap)
    ELSE EmptyNode(req[r].dirPath)

\* The rest of getDirectoryContents (readdir, the stats, the node) and the
\* reply of the handler.
Reply(r) ==
    /\ ReplyPending(r)
    /\ req' = [req EXCEPT ![r] = IdleReq]
    /\ prev' = IF req[r].pc = "listing" /\ req[r].alone /\ req[r].scans = 1 /\ req[r].stored
               THEN [dirPath |-> req[r].dirPath, storedAt |-> req[r].storedAt]
               ELSE prev
    /\ UNCHANGED <<app, duCache, now, ticks, lastOp, calls>>

\* ipcMain.handle('invalidate-du-cache')
IpcInvalidate(targetPath) ==
    /\ NoReplyPending
    /\ duCache' = invalidateDuCache(duCache, targetPath)
    /\ prev' = NoCall
    /\ UNCHANGED <<app, now, ticks, lastOp, req, calls>>

\* ipcMain.handle('clear-du-cache')
IpcClear ==
    /\ NoReplyPending
    /\ duCache' = clearDuCache(duCache)
    /\ prev' = NoCall
    /\ UNCHANGED <<app, now, ticks, lastOp, req, calls>>

Next ==
    \/ \E r \in Slots, p \in RequestDirs : GetDiskUsage(r, p)
    \/ \E r \in Slots, out \in DuOutputs : DuCloseOk(r, out)
    \/ \E r \in Slots, code \in ExitCodes : DuCloseFailed(r, code)
    \/ \E r \in Slots : DuError(r)
    \/ \E r \in Slots : DuTimeout(r)
    \/ \E r \in Slots : DuKilledClose(r)
    \/ \E r \in Slots : Reply(r)
    \/ \E p \in RequestDirs : IpcInvalidate(p)
    \/ IpcClear
    \/ Tick

Spec == Init /\ [][Next]_vars

InFlight(r) == req[r].pc \in {"scan", "listing"}

\* C7: a get-disk-usage call for a directory that follows, within the expiry
\* window and with no invalidation or clear in between, a call for the same
\* directory whose single scan succeeded, starts no du process and is served
\* from the record the first call stored.
C7_SecondCallServedFromCache ==
    \A r \in Slots :
        InFlight(r) /\ req[r].second =>
            /\ req[r].pc = "listing"
            /\ req[r].scans = 0
            /\ req[r].hit
            /\ req[r].served = req[r].first

\* A second call, later than the first, that was served from the cache.
C7_Witness ==
    \E r \in Slots :
        /\ req[r].pc = "listing"
        /\ req[r].second
        /\ req[r].hit
        /\ req[r].scans = 0
        /\ now > req[r].first
        /\ calls = 2

(***************************************************************************)
(* Listing specification: getDirectoryContents from the point where the    *)
(* first request on an empty cache has its sizeMap (or has found that      *)
(* dirPath is no directory), over every dirPath, every mapping a du        *)
(* process can resolve with, and every readdir result. lastOp records      *)
(* what the listing was given and the node it returned.                    *)
(***************************************************************************)
\* The mappings a du process resolves with after at most MaxChunks chunks.
ScanMaps == {ResolvedMap(cs) : cs \in ChunkSeqs(MaxChunks)}

\* The first request, for dirPath, after its scan resolved with sizeMap.
FirstListing(dirPath, sizeMap) ==
    Listing([dirPath |-> dirPath, root |-> dirPath, scans |-> 1, stored |-> TRUE,
             storedAt |-> 0, hit |-> FALSE, served |-> 0, alone |-> TRUE,
             second |-> FALSE, first |-> 0, failures |-> <<>>, rival |-> FALSE,
             outdated |-> FALSE], sizeMap)

InitList ==
    /\ app = NewApp
    /\ now = 0
    /\ ticks = 0
    /\ lastOp = [op |-> "none"]
    /\ calls = 1
    /\ prev = NoCall
    /\ \E dirPath \in Dirs :
        \/ \E sizeMap \in ScanMaps :
            /\ duCache = MapSet(<<>>, dirPath, sizeMap, 0)
            /\ req = [r \in Slots |->
                         IF r = 1 THEN FirstListing(dirPath, sizeMap) ELSE IdleReq]
        \/ \E stat \in StatOutcomes \ {"directory"} :
            /\ duCache = <<>>
            /\ req = [r \in Slots |->
                         IF r = 1 THEN Leaf(dirPath, stat, <<>>) ELSE IdleReq]

\* readdir (answering entries, or throwing when ~listed), the per-entry stats
\* and the returned node.
ListDirectory(r, listed, entries) ==
    /\ req[r].pc = "listing"
    /\ lastOp' = [op |-> "list", dirPath |-> req[r].dirPath, sizeMap |-> req[r].sizeMap,
                  listed |-> listed, entries |-> entries,
                  node |-> ReplyNode(r, listed, entries)]
    /\ req' = [req EXCEPT ![r] = IdleReq]
    /\ UNCHANGED <<app, duCache, now, ticks, calls, prev>>

\* The node returned when dirPath is not a directory or its stat throws.
ReplyLeaf(r) ==
    /\ req[r].pc = "leaf"
    /\ lastOp' = [op |-> "leaf", dirPath |-> req[r].dirPath,
                  node |-> ReplyNode(r, FALSE, <<>>)]
    /\ req' = [req EXCEPT ![r] = IdleReq]
    /\ UNCHANGED <<app, duCache, now, ticks, calls, prev>>

NextList ==
    \/ \E r \in Slots, listed \in BOOLEAN, entries \in Listings :
           ListDirectory(r, listed, entries)
    \/ \E r \in Slots : ReplyLeaf(r)

SpecList == InitList /\ [][NextList]_vars

\* The elements of a sequence.
Range(seq) == {seq[i] : i \in DOMAIN seq}

\* A listing whose readdir succeeded has just returned its node.
IsListed == lastOp.op = "list" /\ lastOp.listed

\* The sum of the size fields of a sequence of nodes, from the head on.
RECURSIVE TotalOf(_)
TotalOf(nodes) == IF nodes = <<>> THEN 0 ELSE Head(nodes).size + TotalOf(Tail(nodes))

\* The entry of the listing that a returned child came from.
EntryOf(child) == CHOOSE e \in Range(lastOp.entries) : e.name = child.name

\* C8: the size of the returned directory node is the sum of the sizes of the
\* children it returns.
C8_NodeSizeIsSumOfChildren ==
    lastOp.op \in {"list", "leaf"} => lastOp.node.size = TotalOf(lastOp.node.children)

\* A node with a file child and a directory child, whose size is their sum
\* while the mapping holds another total for dirPath itself.
C8_Witness ==
    /\ IsListed
    /\ Len(lastOp.node.children) = 2
    /\ \E i, j \in 1..2 : /\ lastOp.node.children[i].type = "file"
                          /\ lastOp.node.children[j].type = "directory"
                          /\ lastOp.node.children[j].size > 0
    /\ lastOp.dirPath \in DOMAIN lastOp.sizeMap
    /\ lastOp.sizeMap[lastOp.dirPath] # lastOp.node.size
    /\ lastOp.node.size = TotalOf(lastOp.node.children)

\* C9: every file child carries its own stat size; every directory child
\* carries the size the mapping holds for its full path, or 0 when the
\* mapping has no entry for that path.
C9_ChildSizes ==
    IsListed =>
        \A i \in 1..Len(lastOp.node.children) :
            LET child == lastOp.node.children[i]
            IN  /\ child.type = "file" => child.size = EntryOf(child).size
                /\ child.type = "directory" =>
                       child.size = IF child.path \in DOMAIN lastOp.sizeMap
                                    THEN lastOp.sizeMap[child.path]
                                    ELSE 0

\* The entries a listing is to return children for, as C10 states it: the
\* entries that are not hidden and whose stat succeeds.
Visible(entry) == Head(entry.name) # "." /\ entry.stat # "throws"

\* The same, for the entries whose stat reports a file or a directory.
VisibleFileOrDir(entry) == Head(entry.name) # "." /\ entry.stat \in {"file", "directory"}

\* The names of a sequence of entries or children, in order.
Names(seq) == [i \in 1..Len(seq) |-> seq[i].name]

\* C10, as stated: the children are, in listing order, exactly the entries
\* whose name does not start with '.' and whose stat succeeds.
C10_ChildrenAreVisibleEntries ==
    IsListed => Names(lastOp.node.children) = Names(SelectSeq(lastOp.entries, Visible))

\* C10, amended: the children are, in listing order, exactly the entries
\* whose name does not start with '.' and whose stat succeeds and reports a
\* regular file or a directory; an entry whose stat fails is skipped and the
\* other entries are kept.
C10_ChildrenAreVisibleFilesAndDirs ==
    IsListed =>
        /\ Names(lastOp.node.children) = Names(SelectSeq(lastOp.entries, VisibleFileOrDir))
        /\ \A i \in 1..Len(lastOp.node.children) :
               lastOp.node.children[i].path =
                   PathJoin(lastOp.dirPath, lastOp.node.children[i].name)

\* A listing whose first entry's stat fails and whose second entry is
\* returned as the only child.
C10_Witness ==
    /\ IsListed
    /\ Len(lastOp.entries) = 2
    /\ lastOp.entries[1].stat = "throws"
    /\ Visible(lastOp.entries[2])
    /\ Names(lastOp.node.children) = <<lastOp.entries[2].name>>

(***************************************************************************)
(* Claims about the handler-level specification's scans.                   *)
(***************************************************************************)
\* Request r has its sizeMap after its only scan exited with a non-zero code.
ScanExitFailed(r) ==
    req[r].pc = "listing" /\ req[r].failures = <<"failed with code">>

\* The readdir results of at most two entries.
ShortListings == {l \in Listings : Len(l) <= 2}

\* C11: when the scan process exits with a non-zero code, get-disk-usage
\* still returns a directory node: for every readdir result of at most two
\* entries it lists the children, every directory child with size 0, and when
\* readdir throws it is the empty node.
C11_ScanFailureYieldsZeroSizedListing ==
    \A r \in Slots :
        ScanExitFailed(r) =>
            /\ ReplyNode(r, FALSE, <<>>) = EmptyNode(req[r].dirPath)
            /\ \A entries \in ShortListings :
                   LET node == ReplyNode(r, TRUE, entries)
                   IN  /\ node.type = "directory"
                       /\ node.path = req[r].dirPath
                       /\ Names(node.children) = Names(SelectSeq(entries, VisibleFileOrDir))
                       /\ \A i \in 1..Len(node.children) :
                              node.children[i].type = "directory" =>
                                  node.children[i].size = 0

\* After a scan that exited with a non-zero code, a listing of a file and a
\* directory returns both, the directory with size 0.
C11_Witness ==
    \E r \in Slots :
        /\ ScanExitFailed(r)
        /\ req[r].scans = 1
        /\ LET node == ReplyNode(r, TRUE, <<EntryFile, EntryDir>>)
           IN  /\ Len(node.children) = 2
               /\ node.children[1].size = EntryFile.size
               /\ node.children[2].type = "directory"
               /\ node.children[2].size = 0
               /\ node.size = EntryFile.size

\* C12: a request that misses the cache scans with includeFiles; only a
\* failure that indicates a volume problem (the timeout) is followed by one
\* more scan, without includeFiles; after any other failure, and after a
\* failed retry, the request gets the empty mapping; no request starts more
\* than two scans.
C12_AtMostOneRetry ==
    \A r \in Slots :
        InFlight(r) =>
            /\ req[r].scans <= 2
            /\ req[r].hit <=> req[r].scans = 0
            /\ req[r].scans = 2 => req[r].failures[1] = "timed out"
            /\ req[r].pc = "scan" =>
                   /\ req[r].includeFiles <=> req[r].scans = 1
                   /\ Len(req[r].failures) = req[r].scans - 1
            /\ req[r].pc = "listing" =>
                   /\ Len(req[r].failures) <= req[r].scans
                   /\ (req[r].failures # <<>> /\ req[r].failures[1] # "timed out") =>
                          req[r].scans = 1
                   /\ (req[r].scans > 0 /\ Len(req[r].failures) = req[r].scans) =>
                          req[r].sizeMap = EmptyMap /\ ~req[r].stored

\* A request whose first scan timed out and whose retry failed too: two
\* scans, the empty mapping.
C12_Witness ==
    \E r \in Slots :
        /\ req[r].pc = "listing"
        /\ req[r].scans = 2
        /\ req[r].failures = <<"timed out", "failed with code">>
        /\ req[r].sizeMap = EmptyMap

\* C13: whenever get-disk-usage for dirPath starts a fresh scan, the scan is
\* rooted at the directory dirPath names, never at a wider ancestor.
C13_FreshScanRootedAtDirPath ==
    \A r \in Slots :
        req[r].pc = "scan" => SamePath(req[r].root, req[r].dirPath)

(***************************************************************************)
(* Runner specification: one call of executeDuWithProgress, event by       *)
(* event. The du process writes a text to stdout, which arrives in data    *)
(* events that cut it anywhere; the process closes with an exit code once  *)
(* its output is delivered, fails to spawn, or is killed by the 10-minute  *)
(* timer. The promise settles once; log is the sequence of progress events *)
(* and of resolve and reject calls.                                        *)
(***************************************************************************)
\* Clock ticks of the runner specification.
MaxScanTicks == 2

\* One line of du output: a size in KB and a path.
DuRecord(kb, path) == [kb |-> kb, path |-> path]

\* The decimal digits of a natural number, as du prints it.
RECURSIVE DigitsOf(_)
DigitsOf(n) ==
    LET last == CHOOSE ch \in Digits : DigitValue(ch) = n % 10
    IN  IF n < 10 THEN <<last>> ELSE Append(DigitsOf(n \div 10), last)

\* The text of a sequence of du lines, "<kb><TAB><path>" each, every line
\* ended by a newline except, when ~terminated, the last.
RECURSIVE DuText(_, _)
DuText(records, terminated) ==
    IF records = <<>> THEN <<>>
    ELSE DigitsOf(Head(records).kb) \o <<TAB>> \o Head(records).path
           \o (IF Len(records) > 1 \/ terminated THEN <<NL>> ELSE <<>>)
           \o DuText(Tail(records), terminated)

\* What a du process writes: well-formed lines, or a text that is not.
WellFormed(records, terminated) ==
    [wellFormed |-> TRUE, records |-> records, terminated |-> terminated,
     text |-> DuText(records, terminated)]

Malformed(text) ==
    [wellFormed |-> FALSE, records |-> <<>>, terminated |-> text # <<>> /\ text[Len(text)] = NL,
     text |-> text]

P_a_c == <<"/", "a", "/", "c">>

P_aSpace == <<"/", "a", " ">>

OutTwoLines == WellFormed(<<DuRecord(1024, P_a_b), DuRecord(2048, P_a_c)>>, TRUE)

OutRepeatedPath == WellFormed(<<DuRecord(7, P_a), DuRecord(40, P_a)>>, TRUE)

OutUnterminated == WellFormed(<<DuRecord(2, P_a_b), DuRecord(30, P_a)>>, FALSE)

OutTrailingSpace == WellFormed(<<DuRecord(3, P_aSpace)>>, FALSE)

OutNonNumeric == Malformed(ChunkNonNumeric)

OutNonNumericUnterminated == Malformed(<<"x", TAB, "/", "a">>)

OutOneField == Malformed(<<"o", "o", "p", "s", NL, "n", "o">>)

OutEmpty == WellFormed(<<>>, TRUE)

ScanOutputs ==
    {OutTwoLines, OutRepeatedPath, OutUnterminated, OutTrailingSpace, OutNonNumeric,
     OutNonNumericUnterminated, OutOneField, OutEmpty}

\* The promise executeDuWithProgress returns.
Pending == [state |-> "pending"]

Resolved(sizeMap) == [state |-> "resolved", value |-> sizeMap]

Rejected(message, code) == [state |-> "rejected", message |-> message, code |-> code]

\* A variant in which the last resolve or reject call wins.
Settle_LastWins(promise, outcome) == outcome

\* resolve and reject settle a pending promise and do nothing to a settled one.
Settle(promise, outcome) == IF promise.state = "pending" THEN outcome ELSE promise

\* The code of a close that follows a kill (null) or a failed spawn.
NoExitCode == -1

\* The close handler's test of the exit code.
CloseSucceeded(code) == code = 0

\* A variant of the timer that is never due.
TimerDue_Never(run, t) == FALSE

\* Whether the timer set at the start of the run is due at time t.
TimerDue(run, t) == t - run.started >= DU_TIMEOUT

\* A variant of the second close handler that leaves the timer armed.
ClearTimer_Forgotten(timer) == timer

\* The second close handler's clearTimeout(timeout): an armed timer is
\* cancelled; a timer that has fired stays fired.
ClearTimer(timer) == IF timer = "armed" THEN "cleared" ELSE timer

\* A variant of the throttle that reports on every data event.
ReportDue_Always(run, t) == TRUE

\* The data handler's throttle: onProgress && (now - lastProgressTime) > 1000.
ReportDue(run, t) == (t - run.lastProgressTime) > 1000

\* The reject calls of the log, with the error they pass.
RejectCall(message, code) == [kind |-> "reject", error |-> Rejected(message, code)]

\* The progress events of the log.
ProgressEvent(lineCount, isComplete) ==
    [kind |-> "progress", processedFiles |-> lineCount, isComplete |-> isComplete]

\* The state of a run that has just spawned du, which will write out.
NewRun(out, t) ==
    [out |-> out, sent |-> 0, du |-> NewDu, promise |-> Pending, log |-> <<>>,
     timer |-> "armed", proc |-> "running", exitCode |-> NoExitCode,
     started |-> t, lastProgressTime |-> t,
     split |-> FALSE, spawnFailed |-> FALSE, killed |-> FALSE, lateFire |-> FALSE,
     reportTimes |-> <<>>]

\* The runner specification starts where getAllDirectorySizes has missed the
\* empty cache for a first request and called executeDuWithProgress.
InitScan ==
    /\ app = NewApp
    /\ duCache = <<>>
    /\ now = 0
    /\ ticks = 0
    /\ lastOp = [op |-> "none"]
    /\ calls = 1
    /\ prev = NoCall
    /\ \E out \in ScanOutputs, includeFiles \in BOOLEAN :
        req = [r \in Slots |->
                  IF r = 1
                  THEN [pc |-> "scan", dirPath |-> P_a, root |-> P_a,
                        includeFiles |-> includeFiles, run |-> NewRun(out, 0)]
                  ELSE IdleReq]

Running(r) == req[r].pc = "scan" /\ req[r].run.proc = "running"

\* A variant for a handler on the exit of the process, which may come before
\* stdout has ended.
StdoutEnded_OnExit(run) == TRUE

\* The close event of a process follows the end of its stdout: every chunk of
\* its output has been delivered.
StdoutEnded(run) == run.sent = Len(run.out.text)

\* stdout still has output to deliver: not all the process wrote has been
\* read, and the stream has not been closed by the close of a killed
\* process. What a killed process had written before the signal may still
\* arrive until its close.
Readable(r) ==
    /\ req[r].pc = "scan"
    /\ \/ req[r].run.proc \in {"running", "killed"}
       \/ req[r].run.proc = "closed" /\ req[r].run.exitCode # NoExitCode
    /\ req[r].run.sent < Len(req[r].run.out.text)

\* duProcess.stdout.on('data') with the next n characters of the output.
ScanData(r, n) ==
    /\ Readable(r)
    /\ LET run == req[r].run
           data == SubSeq(run.out.text, run.sent + 1, run.sent + n)
           du == OnData(run.du, data)
           report == ReportDue(run, now)
       IN  /\ n \in 1..(Len(run.out.text) - run.sent)
           /\ req' = [req EXCEPT ![r].run =
                  [run EXCEPT !.sent = run.sent + n,
                              !.du = du,
                              !.split = run.split \/ du.buffer # <<>>,
                              !.log = IF report
                                      THEN Append(run.log, ProgressEvent(du.lineCount, FALSE))
                                      ELSE run.log,
                              !.reportTimes = IF report THEN Append(run.reportTimes, now)
                                              ELSE run.reportTimes,
                              !.lastProgressTime = IF report THEN now
                                                   ELSE run.lastProgressTime]]
    /\ UNCHANGED <<app, duCache, now, ticks, lastOp, calls, prev>>

\* Both duProcess.on('close') handlers: flush the buffer, then report
\* completion and resolve, or reject; clear the timer. A resolution that
\* settles the promise resumes getAllDirectorySizes, which stores the Map. A
\* running process closes with its exit code once its output is delivered. A
\* process that was never spawned closes without one. So does a process the
\* signal of the timer has terminated; a process that had already exited
\* when the timer fired, its close not yet emitted, is not touched by the
\* kill and closes with its exit code once its output is delivered.
ScanClose(r, code) ==
    /\ req[r].pc = "scan"
    /\ LET run == req[r].run
           du == FlushBuffer(run.du)
           settled == IF CloseSucceeded(code)
                      THEN Settle(run.promise, Resolved(du.sizeMap))
                      ELSE Settle(run.promise, Rejected("failed with code", code))
       IN  /\ \/ /\ run.proc = "running"
                 /\ StdoutEnded(run)
                 /\ code \in ExitCodes
              \/ /\ run.proc \in {"killed", "unspawned"}
                 /\ code = NoExitCode
              \/ /\ run.proc = "killed"
                 /\ StdoutEnded(run)
                 /\ code \in ExitCodes
           /\ req' = [req EXCEPT ![r].run =
                  [run EXCEPT
                      !.du = du,
                      !.proc = "closed",
                      !.exitCode = code,
                      !.timer = ClearTimer(run.timer),
                      !.log = IF CloseSucceeded(code)
                              THEN run.log \o <<ProgressEvent(du.lineCount, TRUE),
                                                [kind |-> "resolve"]>>
                              ELSE Append(run.log, RejectCall("failed with code", code)),
                      !.promise = settled]]
           /\ duCache' = IF run.promise.state = "pending" /\ settled.state = "resolved"
                         THEN MapSet(duCache, req[r].root, settled.value, now)
                         ELSE duCache
    /\ UNCHANGED <<app, now, ticks, lastOp, calls, prev>>

\* duProcess.on('error'): du could not be spawned.
ScanSpawnError(r) ==
    /\ Running(r)
    /\ LET run == req[r].run
       IN  /\ run.sent = 0
           /\ now = run.started
           /\ req' = [req EXCEPT ![r].run =
                  [run EXCEPT !.proc = "unspawned",
                              !.spawnFailed = TRUE,
                              !.log = Append(run.log, RejectCall("spawn error", 0)),
                              !.promise = Settle(run.promise, Rejected("spawn error", 0))]]
    /\ UNCHANGED <<app, duCache, now, ticks, lastOp, calls, prev>>

\* The setTimeout callback: kill the process, reject.
ScanTimeout(r) ==
    /\ req[r].pc = "scan"
    /\ LET run == req[r].run
       IN  /\ run.timer = "armed"
           /\ TimerDue(run, now)
           /\ req' = [req EXCEPT ![r].run =
                  [run EXCEPT !.timer = "fired",
                              !.proc = IF run.proc = "running" THEN "killed" ELSE run.proc,
                              !.killed = run.proc = "running",
                              !.lateFire = run.proc = "closed",
                              !.log = Append(run.log, RejectCall("timed out", 0)),
                              !.promise = Settle(run.promise, Rejected("timed out", 0))]]
    /\ UNCHANGED <<app, duCache, now, ticks, lastOp, calls, prev>>

\* Time passes: not yet enough for a progress report, enough for one, up to
\* just before the timeout, or the timeout's whole delay. An armed timer fires when it is
\* due: time does not pass it by.
ScanSteps == {1000, 1001, DU_TIMEOUT - 1001, DU_TIMEOUT}

ScanTick(step) ==
    /\ ticks < MaxScanTicks
    /\ \A r \in Slots :
           (req[r].pc = "scan" /\ req[r].run.timer = "armed") =>
               ~TimerDue(req[r].run, now + step - 1)
    /\ now' = now + step
    /\ ticks' = ticks + 1
    /\ UNCHANGED <<app, duCache, lastOp, req, calls, prev>>

\* The length of the longest text a du process writes.
LongestOutput == CHOOSE n \in 0..64 : /\ \A o \in ScanOutputs : Len(o.text) <= n
                                      /\ \E o \in ScanOutputs : Len(o.text) = n

NextScan ==
    \/ \E r \in Slots, n \in 1..LongestOutput : ScanData(r, n)
    \/ \E r \in Slots, code \in ExitCodes \cup {NoExitCode} : ScanClose(r, code)
    \/ \E r \in Slots : ScanSpawnError(r)
    \/ \E r \in Slots : ScanTimeout(r)
    \/ \E step \in ScanSteps : ScanTick(step)

SpecScan == InitScan /\ [][NextScan]_vars

\* The runs in progress or over.
ScanRuns == {req[r].run : r \in {q \in Slots : req[q].pc = "scan"}}

\* The mapping a sequence of du lines stands for: each path with 1024 times the
\* size of the last line that names it.
ExpectedMap(records) ==
    [p \in {records[i].path : i \in DOMAIN records} |->
        LET last == CHOOSE i \in DOMAIN records :
                        /\ records[i].path = p
                        /\ \A j \in DOMAIN records : records[j].path = p => j <= i
        IN  records[last].kb * 1024]

\* The entries of a log that report completion, and its resolve calls.
CompleteEvents(log) ==
    {i \in DOMAIN log : log[i].kind = "progress" /\ log[i].isComplete}

ResolveCalls(log) == {i \in DOMAIN log : log[i].kind = "resolve"}

C15_TrailingLineIncluded ==
    \A run \in ScanRuns :
        (/\ run.promise.state = "resolved"
         /\ run.out.wellFormed
         /\ ~run.out.terminated
         /\ run.out.records # <<>>) =>
            LET last == run.out.records[Len(run.out.records)]
            IN  /\ last.path \in DOMAIN run.promise.value
                /\ run.promise.value[last.path] = last.kb * 1024

\* C16: malformed lines add no entry to the mapping and are not counted, and
\* every size in the mapping is a non-negative number of bytes.
C16_MalformedLinesSkipped ==
    \A run \in ScanRuns :
        /\ \A p \in DOMAIN run.du.sizeMap :
               run.du.sizeMap[p] # NaN /\ run.du.sizeMap[p] >= 0
        /\ ~run.out.wellFormed => run.du.sizeMap = EmptyMap /\ run.du.lineCount = 0

\* C17: when the process exits with code 0 the runner reports completion
\* exactly once, with the count of all records, the flushed one included, and
\* then resolves with the mapping.
C17_CompletionReportedOnceThenResolved ==
    \A run \in ScanRuns :
        (run.proc = "closed" /\ run.exitCode = 0) =>
            /\ Len(run.log) >= 2
            /\ run.log[Len(run.log) - 1] = ProgressEvent(run.du.lineCount, TRUE)
            /\ run.log[Len(run.log)] = [kind |-> "resolve"]
            /\ CompleteEvents(run.log) = {Len(run.log) - 1}
            /\ run.out.wellFormed => run.du.lineCount = Len(run.out.records)
            /\ run.promise = Resolved(run.du.sizeMap)

\* C18: when the process exits with a non-zero code the runner rejects with
\* the error that carries the code, resolves with nothing and reports no
\* completion.
C18_NonZeroExitRejects ==
    \A run \in ScanRuns :
        (run.proc = "closed" /\ run.exitCode > 0) =>
            /\ run.promise = Rejected("failed with code", run.exitCode)
            /\ CompleteEvents(run.log) = {}
            /\ ResolveCalls(run.log) = {}

\* C19: when du cannot be spawned the runner rejects with the spawn error, at
\* once and for good.
C19_SpawnFailureRejects ==
    \A run \in ScanRuns :
        run.spawnFailed =>
            /\ run.promise = Rejected("spawn error", 0)
            /\ ResolveCalls(run.log) = {}

\* A spawn failure whose timer fired ten minutes later: the promise still
\* carries the spawn error.
C19_Witness ==
    \E run \in ScanRuns :
        /\ run.spawnFailed
        /\ run.timer = "fired"
        /\ run.promise.state = "rejected"
        /\ run.promise.message = "spawn error"

\* C20: a process that has not closed 600 seconds after its start is killed
\* and the runner rejects with the timeout error; no call is pending, and no
\* process running, later than that.
C20_TimeoutKillsAndRejects ==
    \A run \in ScanRuns :
        /\ run.promise.state = "pending" => now - run.started <= DU_TIMEOUT
        /\ run.proc = "running" => now - run.started <= DU_TIMEOUT
        /\ run.killed =>
               /\ run.promise = Rejected("timed out", 0)
               /\ run.proc \in {"killed", "closed"}
               /\ run.timer = "fired"
               /\ now - run.started >= DU_TIMEOUT

\* A process killed in the middle of its output, closed afterwards: the
\* promise carries the timeout error.
C20_Witness ==
    \E run \in ScanRuns :
        /\ run.killed
        /\ run.sent > 0
        /\ run.sent < Len(run.out.text)
        /\ run.proc = "closed"
        /\ run.promise.state = "rejected"
        /\ run.promise.message = "timed out"

\* C21: the non-final progress events of a scan are more than 1000 ms apart,
\* and the first comes more than 1000 ms after the start of the scan, however
\* many lines have been parsed in between.
C21_ProgressThrottledByTime ==
    \A run \in ScanRuns :
        /\ Len(run.reportTimes)
               = Cardinality({i \in DOMAIN run.log :
                                 run.log[i].kind = "progress" /\ ~run.log[i].isComplete})
        /\ \A i \in DOMAIN run.reportTimes :
               run.reportTimes[i] - (IF i = 1 THEN run.started ELSE run.reportTimes[i - 1])
                   > 1000

\* Two non-final reports of one scan, after which two more lines were parsed
\* without a report.
C21_Witness ==
    \E run \in ScanRuns :
        /\ Len(run.reportTimes) = 2
        /\ run.du.lineCount = 2
        /\ run.log[2].processedFiles = 0

(***************************************************************************)
(* Delete specification: the delete-file handler, over spellings of the    *)
(* system paths and of other paths, and over what the file system answers. *)
(* lastOp records the call, its result and the removal it attempted.       *)
(***************************************************************************)

\* The system paths of the deny-list and the spellings delete-file is called with.
D_System == <<"/", "S", "y", "s", "t", "e", "m">>

D_usr == <<"/", "u", "s", "r">>

D_bin == <<"/", "b", "i", "n">>

D_sbin == <<"/", "s", "b", "i", "n">>

D_etc == <<"/", "e", "t", "c">>

D_var == <<"/", "v", "a", "r">>

D_tmp == <<"/", "t", "m", "p">>

X_usrDotDotEtc == <<"/", "u", "s", "r", "/", ".", ".", "/", "e", "t", "c">>

X_aDotDot == <<"/", "a", "/", ".", ".">>

X_dotTmp == <<"/", ".", "/", "t", "m", "p">>

X_slashSlashVar == <<"/", "/", "v", "a", "r">>

X_relBin == <<"b", "i", "n">>

X_dotDot == <<".", ".">>

X_tmpFile == <<"/", "t", "m", "p", "/", "x">>

X_tmpx == <<"/", "t", "m", "p", "x">>

X_aDotDotB == <<"/", "a", "/", ".", ".", "/", "b">>

\* dangerousPaths
dangerousPaths ==
    {P_root, D_System, D_usr, D_bin, D_sbin, D_etc, D_var, D_tmp}

\* A variant that compares the path as it was passed.
DeleteDenied_Unresolved(filePath) == filePath \in dangerousPaths

\* The handler's security check on path.resolve(filePath).
DeleteDenied(filePath) ==
    LET normalizedPath == PathResolve(filePath)
    IN  \E dangerous \in dangerousPaths :
            \/ normalizedPath = dangerous
            \/ StartsWith(normalizedPath, dangerous \o <<SEP>>)

\* The paths delete-file is called with: each system path as it is and with
\* a trailing separator, spellings with "." and ".." segments, doubled
\* separators and relative paths, paths under a system path, and other paths.
DeletePaths ==
    dangerousPaths
        \cup {d \o <<SEP>> : d \in dangerousPaths}
        \cup {X_usrDotDotEtc, X_aDotDot, X_dotTmp, X_slashSlashVar, X_relBin, X_dotDot,
              X_tmpFile, X_tmpx, X_aDotDotB, P_a, P_aSlash, P_a_b, P_ab, P_a_c}

\* The error codes a failing fs call may carry.
FsErrors == {"ENOENT", "EACCES", "EPERM", "ENOTEMPTY", "EBUSY", "EIO"}

\* The catch block's message for an error code.
DeleteErrorMessage(code) ==
    CASE code = "ENOENT" -> "not found"
      [] code \in {"EACCES", "EPERM"} -> "no permission"
      [] code = "ENOTEMPTY" -> "not empty"
      [] code = "EBUSY" -> "in use"
      [] OTHER -> code

Failure(error) == [success |-> FALSE, error |-> error]

\* ipcMain.handle('delete-file'): exists is what fs.access answers, stat what
\* fs.stat answers, outcome what the removal answers ("ok" or an error code).
DeleteFile(filePath, exists, stat, outcome) ==
    /\ lastOp' =
           [op |-> "delete", arg |-> filePath] @@
           (IF DeleteDenied(filePath)
            THEN [result |-> Failure("dangerous path"), attempted |-> "none"]
            ELSE IF ~exists
            THEN [result |-> Failure("does not exist"), attempted |-> "none"]
            ELSE IF stat = "throws"
            THEN [result |-> Failure(DeleteErrorMessage(outcome)), attempted |-> "none"]
            ELSE [result |-> IF outcome = "ok" THEN [success |-> TRUE]
                             ELSE Failure(DeleteErrorMessage(outcome)),
                  attempted |-> IF stat = "directory" THEN "rmdir" ELSE "unlink"])
    /\ outcome = "ok" => stat # "throws"
    /\ UNCHANGED <<app, duCache, now, ticks, req, calls, prev>>

NextDelete ==
    \E filePath \in DeletePaths, exists \in BOOLEAN, stat \in StatOutcomes,
       outcome \in FsErrors \cup {"ok"} :
        DeleteFile(filePath, exists, stat, outcome)

SpecDelete == Init /\ [][NextDelete]_vars

\* The path names one of the system paths of the deny-list, however spelled.
DenyListed(p) == \E d \in dangerousPaths : SamePath(p, d)

\* C22: delete-file on a path whose resolved form is one of the system paths
\* returns a failure and attempts no removal.
C22_DenyListNeverRemoved ==
    (lastOp.op = "delete" /\ DenyListed(lastOp.arg)) =>
        /\ lastOp.result = Failure("dangerous path")
        /\ lastOp.attempted = "none"

\* A refused delete of /etc spelled /usr/../etc.
C22_Witness ==
    /\ lastOp.op = "delete"
    /\ lastOp.arg = X_usrDotDotEtc
    /\ ~lastOp.result.success
    /\ lastOp.attempted = "none"

\* C23: get-disk-usage on a path that exists but is not a directory starts no
\* scan and leaves the cache as it is, and what it returns, whatever readdir
\* would answer, is a directory-typed node of size 0 without children.
C23_NonDirectoryIsLeaf ==
    \A r \in Slots :
        (req[r].pc = "leaf" /\ req[r].stat = "file") =>
            /\ duCache = req[r].cacheBefore
            /\ req[r].scans = 0
            /\ \A listed \in BOOLEAN, entries \in ShortListings :
                   LET node == ReplyNode(r, listed, entries)
                   IN  /\ node.type = "directory"
                       /\ node.size = 0
                       /\ node.children = <<>>
                       /\ node.path = req[r].dirPath

\* A request for a file that waits for its reply while the cache holds a
\* record.
C23_Witness ==
    \E r \in Slots :
        /\ req[r].pc = "leaf"
        /\ req[r].stat = "file"
        /\ duCache # <<>>

(***************************************************************************)
(* Normalization specification: normalizePath applied, and applied again,  *)
(* to every string of at most MaxPathLen characters over PathChars.        *)
(***************************************************************************)
MaxPathLen == 4

PathChars == {SEP, "a", "."}

\* The strings normalizePath is called with.
PathStrings == UNION {[1..n -> PathChars] : n \in 0..MaxPathLen}

Normalize(filePath) ==
    /\ lastOp' = [op |-> "normalize", arg |-> filePath,
                  once |-> normalizePath(filePath),
                  twice |-> normalizePath(normalizePath(filePath))]
    /\ UNCHANGED <<app, duCache, now, ticks, req, calls, prev>>

NextNormalize == \E filePath \in PathStrings : Normalize(filePath)

SpecNormalize == Init /\ [][NextNormalize]_vars

\* C24: normalize(normalize(p)) = normalize(p) for every p; the normal form is
\* never empty and ends in a separator only when it is the root.
C24_NormalizeIdempotent ==
    lastOp.op = "normalize" =>
        /\ lastOp.twice = lastOp.once
        /\ lastOp.once # <<>>
        /\ lastOp.once[Len(lastOp.once)] = SEP => lastOp.once = <<SEP>>

\* A path with two trailing separators, normalized to a path without.
C24_Witness ==
    /\ lastOp.op = "normalize"
    /\ lastOp.arg = <<SEP, "a", SEP, SEP>>
    /\ lastOp.once = <<SEP, "a">>
    /\ lastOp.twice = <<SEP, "a">>

\* Paths that are unrelated as directories although one normalized path is a
\* string prefix of the other, such as /a and /ab.
PrefixSibling(a, b) ==
    /\ ~Related(a, b)
    /\ \/ StartsWith(normalizePath(a), normalizePath(b))
       \/ StartsWith(normalizePath(b), normalizePath(a))

\* C25: covering and invalidation compare against root + separator: a record
\* whose root is only a string prefix of the query (or the reverse) is never
\* selected by findCoveringRoot and never removed by invalidate.
C25_PrefixSiblingsNotConfused ==
    /\ IsFind /\ lastOp.ret # NoRoot => ~PrefixSibling(lastOp.ret, lastOp.arg)
    /\ IsInvalidate =>
           \A i \in 1..Len(lastOp.before) :
               PrefixSibling(lastOp.before[i].root, lastOp.arg) =>
                   /\ MapHas(duCache, lastOp.before[i].root)
                   /\ MapGet(duCache, lastOp.before[i].root) = lastOp.before[i]

\* find(/ab) answered nothing while a valid record rooted at /a was cached.
C25_Witness ==
    /\ IsFind
    /\ lastOp.arg = P_ab
    /\ lastOp.ret = NoRoot
    /\ \E rec \in Records(lastOp.before) : rec.root = P_a /\ ValidAt(rec, lastOp.at)

\* The slots whose request is waiting for a du process scanning rootPath.
ScanningRoot(rootPath) == {r \in Slots : req[r].pc = "scan" /\ req[r].root = rootPath}

\* C26: concurrent requests for the same uncached root are coalesced: at most
\* one scan is in flight per root at any time.
C26_OneScanInFlightPerRoot ==
    \A rootPath \in RequestDirs : Cardinality(ScanningRoot(rootPath)) <= 1

\* The positions of the records of duCache for the directory of rootPath.
RecordsFor(rootPath) == {i \in 1..Len(duCache) : SamePath(duCache[i].root, rootPath)}

\* C27: when two scans of the same root were in flight together and both
\* succeeded, the cache holds, once the later one has stored, exactly one
\* record for that root: the later scan's own complete mapping with its
\* completion time.
C27_LastWriterWins ==
    \A r \in Slots :
        (req[r].pc = "listing" /\ req[r].stored /\ req[r].rival) =>
            /\ Cardinality(RecordsFor(req[r].root)) = 1
            /\ \A i \in RecordsFor(req[r].root) :
                   duCache[i] = [root |-> req[r].root, sizeMap |-> req[r].sizeMap,
                                 timestamp |-> req[r].storedAt]

\* C28: a getAllDirectorySizes call has at most one du process alive: its
\* fallback run is never in progress while the process of its first run,
\* killed by the timer, has not yet exited.
C28_FallbackAfterFirstExited ==
    \A r \in Slots :
        (req[r].pc = "scan" /\ ~req[r].includeFiles) => ~req[r].orphan

\* C29: the timeout is cancelled on completion: once the du process has
\* closed the timer is no longer armed and never fires; when a process that
\* no kill was issued for has closed with an exit code, its timer is cancelled
\* and its promise carries no timeout error.
C29_TimerCancelledOnClose ==
    \A run \in ScanRuns :
        /\ ~run.lateFire
        /\ run.proc = "closed" => run.timer # "armed"
        /\ (run.proc = "closed" /\ run.exitCode \in ExitCodes /\ ~run.killed) =>
               /\ run.timer = "cleared"
               /\ run.promise # Rejected("timed out", 0)

\* A scan that completed with exit code 0 before the timeout, seen when the
\* 600 seconds since its start have passed: resolved, its timer cancelled.
C29_Witness ==
    \E run \in ScanRuns :
        /\ run.proc = "closed"
        /\ run.exitCode = 0
        /\ run.promise.state = "resolved"
        /\ run.timer = "cleared"
        /\ now - run.started >= DU_TIMEOUT

\* C30: the cache holds at most one record per scanned root, roots being
\* compared in normalized form.
C30_OneRecordPerNormalizedRoot ==
    \A i, j \in 1..Len(duCache) :
        normalizePath(duCache[i].root) = normalizePath(duCache[j].root) => i = j

\* C31: a cache record is created only by a scan that completed successfully.
\* When a call that ran alone returns after its last scan succeeded, the cache
\* holds its record; when it returns after its last scan failed (non-zero
\* exit, spawn failure or timeout), it returns the empty mapping and the cache
\* holds no record for its root, so the next call for that root scans again.
C31_RecordOnlyOnSuccess ==
    \A r \in Slots :
        (req[r].pc = "listing" /\ req[r].scans >= 1 /\ req[r].alone) =>
            IF req[r].stored
            THEN /\ MapHas(duCache, req[r].root)
                 /\ MapGet(duCache, req[r].root) =
                        [root |-> req[r].root, sizeMap |-> req[r].sizeMap,
                         timestamp |-> req[r].storedAt]
            ELSE /\ req[r].failures # <<>>
                 /\ req[r].sizeMap = EmptyMap
                 /\ ~MapHas(duCache, req[r].root)
                 /\ findCachedRoot(duCache, now, req[r].root) # req[r].root

\* A call whose first scan timed out and whose fallback scan failed, returning
\* while the cache holds another root's record.
C31_Witness ==
    \E r \in Slots :
        /\ req[r].pc = "listing"
        /\ req[r].alone
        /\ req[r].scans = 2
        /\ ~req[r].stored
        /\ duCache # <<>>

\* C32: a mapping is immutable once its scan has completed: the Map a run
\* resolved with, which getAllDirectorySizes stored in the cache record, has
\* afterwards the entries it had when it was stored, whatever events follow.
C32_StoredMappingImmutable ==
    \A r \in Slots :
        (req[r].pc = "scan" /\ req[r].run.promise.state = "resolved") =>
            /\ MapHas(duCache, req[r].root)
            /\ MapGet(duCache, req[r].root).sizeMap = req[r].run.promise.value
            /\ req[r].run.du.sizeMap = req[r].run.promise.value

\* A stored mapping with an entry, seen when the 600 seconds of the run's
\* timer have passed since it was stored.
C32_Witness ==
    \E r \in Slots :
        /\ req[r].pc = "scan"
        /\ req[r].run.promise.state = "resolved"
        /\ MapHas(duCache, req[r].root)
        /\ MapGet(duCache, req[r].root).sizeMap # EmptyMap
        /\ now - MapGet(duCache, req[r].root).timestamp >= DU_TIMEOUT

(***************************************************************************)
(* The renderer (DiskUtilityApp, src/unnamed/part_000 lines 1-801): its    *)
(* front-end cache, the directory it displays, and its progress display.   *)
(* app is the renderer object; req holds the loadDirectory and             *)
(* refreshCurrentDirectory calls that are waiting for the main process.    *)
(***************************************************************************)
\* JavaScript truthiness of a number or null.
Truthy(x) == x # Null /\ x # 0

Min(a, b) == IF a <= b THEN a ELSE b

Max(a, b) == IF a >= b THEN a ELSE b

\* Progress estimates are real numbers of percent; they are carried in units
\* of 1/3000 percent, in which the time-based estimate of a whole number of
\* milliseconds is a whole number.
Percent(p) == p * 3000

\* floor(log10(n)) for n >= 1.
RECURSIVE Log10Floor(_)
Log10Floor(n) == IF n < 10 THEN 0 ELSE 1 + Log10Floor(n \div 10)

\* Math.log10(Math.max(1, processedFiles)) * 15 lies between these two values
\* (and is the first for a power of ten).
FileBasedLow(processedFiles) ==
    Min(Percent(70), Log10Floor(Max(1, processedFiles)) * Percent(15))

FileBasedHigh(processedFiles) ==
    IF Max(1, processedFiles) = 1 THEN 0
    ELSE Min(Percent(70), (Log10Floor(Max(1, processedFiles)) + 1) * Percent(15))

\* timeBasedProgress for elapsed milliseconds since progressStartTime:
\* (elapsed / 30) * 50 up to 30 s, then 50 + min(40, (elapsed - 30) / 60 * 40),
\* elapsed in seconds.
TimeBasedProgress(progressStartTime, t) ==
    IF ~Truthy(progressStartTime) THEN 0
    ELSE LET elapsedMs == t - progressStartTime
         IN  IF elapsedMs <= 30000
             THEN elapsedMs * 5
             ELSE Percent(50) + Min(Percent(40), (elapsedMs - 30000) * 2)

\* A variant that adds the two estimates up.
EstimatedProgress_Sum(fileBasedProgress, timeBasedProgress) ==
    fileBasedProgress + timeBasedProgress

\* Math.min(95, Math.max(fileBasedProgress, timeBasedProgress))
EstimatedProgress(fileBasedProgress, timeBasedProgress) ==
    Min(Percent(95), Max(fileBasedProgress, timeBasedProgress))

\* updateProgressDisplay(progress), on a du-progress message: a completion
\* event resets progressStartTime and returns; any other event computes the
\* estimate and puts the progress bar into the treemap and the file list.
\* lastOp records the event and the two bounds of the estimate shown.
UpdateProgressDisplay(processedFiles, isComplete) ==
    LET timeBased == TimeBasedProgress(app.progressStartTime, now)
    IN  /\ app' = IF isComplete
                  THEN [app EXCEPT !.progressStartTime = Null]
                  ELSE [app EXCEPT !.shown = [kind |-> "progress"]]
        /\ lastOp' = [op |-> "progress", processedFiles |-> processedFiles,
                      isComplete |-> isComplete, startTime |-> app.progressStartTime,
                      at |-> now,
                      estimates |->
                          IF isComplete THEN {}
                          ELSE {EstimatedProgress(FileBasedLow(processedFiles), timeBased),
                                EstimatedProgress(FileBasedHigh(processedFiles), timeBased)}]
        /\ UNCHANGED <<duCache, now, ticks, req, calls, prev>>

\* this.cache: a Map from path to {data, timestamp}, as the sequence of its
\* entries.
AppCacheHas(cache, path) == \E i \in 1..Len(cache) : cache[i].path = path

AppCacheGet(cache, path) ==
    cache[CHOOSE i \in 1..Len(cache) : cache[i].path = path]

AppCacheDelete(cache, path) == SelectSeq(cache, LAMBDA e : e.path # path)

AppCacheSet(cache, path, data, timestamp) ==
    LET entry == [path |-> path, data |-> data, timestamp |-> timestamp]
    IN  IF AppCacheHas(cache, path)
        THEN [i \in 1..Len(cache) |-> IF cache[i].path = path THEN entry ELSE cache[i]]
        ELSE Append(cache, entry)

\* isCacheValid(path) at time t: the answer and the cache it leaves behind.
AppIsCacheValid(cache, path, t) ==
    IF ~AppCacheHas(cache, path)
    THEN [valid |-> FALSE, cache |-> cache]
    ELSE LET isValid == (t - AppCacheGet(cache, path).timestamp) < CACHE_EXPIRY
         IN  [valid |-> isValid,
              cache |-> IF isValid THEN cache ELSE AppCacheDelete(cache, path)]

\* String.prototype.lastIndexOf for a character: 0 when there is none (the
\* positions here count from 1).
RECURSIVE LastIndexOf(_, _)
LastIndexOf(str, ch) ==
    IF str = <<>> THEN 0
    ELSE IF str[Len(str)] = ch THEN Len(str)
    ELSE LastIndexOf(SubSeq(str, 1, Len(str) - 1), ch)

\* getParentPath(): the parent of this.currentPath. It takes no parameter.
getParentPath(currentPath) ==
    IF currentPath = <<SEP>> THEN <<SEP>>
    ELSE LET normalizedPath == StripTrailingSeps(currentPath)
             cut == SubSeq(normalizedPath, 1, LastIndexOf(normalizedPath, SEP) - 1)
         IN  IF cut = <<>> THEN <<SEP>> ELSE cut

\* invalidateCache(path): this.getParentPath(path) ignores its argument and
\* answers the parent of this.currentPath.
invalidateCache(a, path) ==
    LET parentPath == getParentPath(a.currentPath)
        cache1 == AppCacheDelete(a.cache, path)
    IN  [a EXCEPT !.cache = IF parentPath # path
                            THEN AppCacheDelete(cache1, parentPath)
                            ELSE cache1]

\* The listing getDiskUsage(path) answers.
DiskData(path) == [path |-> path]

Listed(data) == [kind |-> "listing", path |-> data.path]

\* loadDirectory(path, forceReload) up to its return or its await: the
\* renderer and, when it waits for getDiskUsage, the pending call.
LoadStart(a, path, forceReload, t) ==
    LET a1 == [a EXCEPT !.currentPath = path]
        chk == IF forceReload THEN [valid |-> FALSE, cache |-> a.cache]
               ELSE AppIsCacheValid(a.cache, path, t)
    IN  IF chk.valid
        THEN [app |-> [a1 EXCEPT !.data = AppCacheGet(a.cache, path).data,
                                 !.shown = Listed(AppCacheGet(a.cache, path).data)],
              call |-> IdleReq]
        ELSE [app |-> [a1 EXCEPT !.cache = chk.cache,
                                 !.progressStartTime = t,
                                 !.shown = [kind |-> "loading"]],
              call |-> [pc |-> "load", path |-> path]]

\* The paths the renderer loads and invalidates.
AppPaths == {P_root, P_a, P_a_b}

\* A click on a directory, the up, home or root button: loadDirectory(path).
LoadDirectory(r, path) ==
    /\ req[r].pc = "idle"
    /\ calls < MaxCalls
    /\ LET res == LoadStart(app, path, FALSE, now)
       IN  /\ app' = res.app
           /\ req' = [req EXCEPT ![r] = res.call]
    /\ calls' = calls + 1
    /\ lastOp' = [op |-> "load", arg |-> path]
    /\ UNCHANGED <<duCache, now, ticks, prev>>

\* getDiskUsage(path) has answered: the rest of loadDirectory's try block.
LoadResolved(r) ==
    /\ req[r].pc = "load"
    /\ LET diskData == DiskData(req[r].path)
       IN  app' = [app EXCEPT
                      !.cache = AppCacheSet(app.cache, req[r].path, diskData, now),
                      !.data = diskData,
                      !.shown = Listed(diskData)]
    /\ req' = [req EXCEPT ![r] = IdleReq]
    /\ lastOp' = [op |-> "loaded", arg |-> req[r].path]
    /\ UNCHANGED <<duCache, now, ticks, calls, prev>>

\* The invoke was rejected: loadDirectory's catch block.
LoadRejected(r) ==
    /\ req[r].pc = "load"
    /\ app' = [app EXCEPT !.shown = [kind |-> "error"]]
    /\ req' = [req EXCEPT ![r] = IdleReq]
    /\ lastOp' = [op |-> "failed", arg |-> req[r].path]
    /\ UNCHANGED <<duCache, now, ticks, calls, prev>>

\* invalidateCache(path), as deleteFile calls it after a deletion.
InvalidateCache(path) ==
    /\ app' = invalidateCache(app, path)
    /\ lastOp' = [op |-> "invalidateCache", arg |-> path, before |-> app.cache,
                  currentPath |-> app.currentPath]
    /\ UNCHANGED <<duCache, now, ticks, req, calls, prev>>

\* refreshCurrentDirectory up to its await: clearCache(), then the
\* clear-du-cache invoke.
RefreshCurrentDirectory(r) ==
    /\ req[r].pc = "idle"
    /\ calls < MaxCalls
    /\ app.currentPath # <<>>
    /\ app' = [app EXCEPT !.cache = <<>>]
    /\ req' = [req EXCEPT ![r] = [pc |-> "refresh"]]
    /\ calls' = calls + 1
    /\ lastOp' = [op |-> "refresh"]
    /\ UNCHANGED <<duCache, now, ticks, prev>>

\* clear-du-cache has answered: loadDirectory(this.currentPath, true), with
\* the currentPath of that moment.
RefreshReload(r) ==
    /\ req[r].pc = "refresh"
    /\ LET res == LoadStart(app, app.currentPath, TRUE, now)
       IN  /\ app' = res.app
           /\ req' = [req EXCEPT ![r] = res.call]
    /\ duCache' = clearDuCache(duCache)
    /\ lastOp' = [op |-> "load", arg |-> app.currentPath]
    /\ UNCHANGED <<now, ticks, calls, prev>>

AppTick ==
    /\ ticks < MaxTicks
    /\ \E d \in TickSteps : now' = now + d
    /\ ticks' = ticks + 1
    /\ lastOp' = [op |-> "none"]
    /\ UNCHANGED <<duCache, req, calls, prev, app>>

\* The du-progress messages the renderer specification draws.
ProgressSamples == {0, 100000}

\* The renderer starts at a clock reading that is not 0.
InitApp ==
    /\ duCache = <<>>
    /\ now = 1
    /\ ticks = 0
    /\ lastOp = [op |-> "none"]
    /\ req = [r \in Slots |-> IdleReq]
    /\ calls = 0
    /\ prev = NoCall
    /\ app = NewApp

NextApp ==
    \/ \E r \in Slots, path \in AppPaths : LoadDirectory(r, path)
    \/ \E r \in Slots : LoadResolved(r)
    \/ \E r \in Slots : LoadRejected(r)
    \/ \E path \in AppPaths : InvalidateCache(path)
    \/ \E r \in Slots : RefreshCurrentDirectory(r)
    \/ \E r \in Slots : RefreshReload(r)
    \/ \E n \in ProgressSamples, isComplete \in BOOLEAN : UpdateProgressDisplay(n, isComplete)
    \/ AppTick

SpecApp == InitApp /\ [][NextApp]_vars

(***************************************************************************)
(* Progress specification: updateProgressDisplay applied to progress       *)
(* events of every sampled file count, at every sampled time after the     *)
(* loadDirectory call that started the scan.                               *)
(***************************************************************************)
\* Milliseconds between loadDirectory's Date.now() and the progress event.
ElapsedSamples ==
    {0, 1, 1000, 29999, 30000, 30001, 60000, 89999, 90000, 90001, DU_TIMEOUT, CACHE_EXPIRY}

\* processedFiles of the events.
FileSamples == {0, 1, 9, 10, 99, 100, 46415, 46416, 99999, 100000, 1000000, 1000000000}

\* loadDirectory(/a) was called at time 1 and waits for getDiskUsage.
InitProgress ==
    /\ duCache = <<>>
    /\ ticks = 0
    /\ lastOp = [op |-> "none"]
    /\ calls = 1
    /\ prev = NoCall
    /\ LET res == LoadStart(NewApp, P_a, FALSE, 1)
       IN  /\ app = res.app
           /\ req = [r \in Slots |-> IF r = 1 THEN res.call ELSE IdleReq]
    /\ \E elapsed \in ElapsedSamples : now = 1 + elapsed

NextProgress ==
    \E n \in FileSamples, isComplete \in BOOLEAN : UpdateProgressDisplay(n, isComplete)

SpecProgress == InitProgress /\ [][NextProgress]_vars

\* C33: for a non-final progress event the estimate lies between 0 and 95
\* percent and never reaches 100; an event with isComplete = true produces no
\* estimate and resets progressStartTime.
C33_EstimateBetween0And95 ==
    lastOp.op = "progress" =>
        IF lastOp.isComplete
        THEN /\ lastOp.estimates = {}
             /\ app.progressStartTime = Null
        ELSE /\ lastOp.estimates # {}
             /\ \A e \in lastOp.estimates :
                    /\ 0 <= e
                    /\ e <= Percent(95)
                    /\ e < Percent(100)

\* A non-final event for a million files, more than 90 seconds after the
\* start: the estimate is 90 percent.
C33_Witness ==
    /\ lastOp.op = "progress"
    /\ ~lastOp.isComplete
    /\ Truthy(lastOp.startTime)
    /\ lastOp.at - lastOp.startTime > 90000
    /\ lastOp.processedFiles >= 1000000
    /\ lastOp.estimates = {Percent(90)}

\* C34: invalidateCache(path) removes the front-end cache entry for path and
\* the entry for the parent directory of path, whatever directory is
\* displayed, and no other entry.
C34_InvalidateRemovesPathAndItsParent ==
    lastOp.op = "invalidateCache" =>
        app.cache = SelectSeq(lastOp.before,
                        LAMBDA e : e.path # lastOp.arg /\ e.path # getParentPath(lastOp.arg))

\* C35: immediately after invalidate(t), findCoveringRoot(p) returns nothing
\* for p = t and for every p under t, whatever the cache held before.
C35_NothingCoversInvalidatedTarget ==
    IsInvalidate =>
        \A p \in Dirs :
            AncestorOrSelf(lastOp.arg, p) => findCachedRoot(duCache, now, p) = NoRoot

\* ---- The handlers with the scans in flight observed ----

\* The scans in flight, and those whose root an invalidation of targetPath
\* would remove the record of.
Scanning == {q \in Slots : req[q].pc = "scan"}

Overtaken(targetPath) ==
    {q \in Scanning : InvalidateTest(normalizePath(targetPath), normalizePath(req[q].root))}

\* The requests after an invalidation that overtakes the scans of slots:
\* these scans started before the invalidation (outdated). The handlers
\* themselves leave the scans in flight alone.
Outdate(slots) ==
    [q \in Slots |->
        IF q \in slots THEN [req[q] EXCEPT !.outdated = TRUE] ELSE req[q]]

\* ipcMain.handle('invalidate-du-cache'), recording the scans it overtakes
IpcInvalidateInFlight(targetPath) ==
    /\ NoReplyPending
    /\ duCache' = invalidateDuCache(duCache, targetPath)
    /\ prev' = NoCall
    /\ req' = Outdate(Overtaken(targetPath))
    /\ UNCHANGED <<app, now, ticks, lastOp, calls>>

\* ipcMain.handle('clear-du-cache'), recording the scans it overtakes
IpcClearInFlight ==
    /\ NoReplyPending
    /\ duCache' = clearDuCache(duCache)
    /\ prev' = NoCall
    /\ req' = Outdate(Scanning)
    /\ UNCHANGED <<app, now, ticks, lastOp, calls>>

NextInFlight ==
    \/ \E r \in Slots, p \in RequestDirs : GetDiskUsage(r, p)
    \/ \E r \in Slots, out \in DuOutputs : DuCloseOk(r, out)
    \/ \E r \in Slots, code \in ExitCodes : DuCloseFailed(r, code)
    \/ \E r \in Slots : DuError(r)
    \/ \E r \in Slots : DuTimeout(r)
    \/ \E r \in Slots : DuKilledClose(r)
    \/ \E r \in Slots : Reply(r)
    \/ \E p \in RequestDirs : IpcInvalidateInFlight(p)
    \/ IpcClearInFlight
    \/ Tick

SpecInFlight == Init /\ [][NextInFlight]_vars

\* C36: an invalidation is not undone by a scan that was in flight: when a
\* call returns whose scan started before an invalidate or clear that covered
\* its root, the cache holds no record for that root produced by that scan.
C36_InvalidationNotUndone ==
    \A r \in Slots :
        (req[r].pc = "listing" /\ req[r].outdated) =>
            ~(/\ MapHas(duCache, req[r].root)
              /\ MapGet(duCache, req[r].root).sizeMap = req[r].sizeMap
              /\ MapGet(duCache, req[r].root).timestamp = req[r].storedAt
              /\ req[r].stored)

\* The resolve and reject calls of a run's log.
SettleCalls(log) == {i \in DOMAIN log : log[i].kind \in {"resolve", "reject"}}

\* The errors executeDuWithProgress rejects with first: a process failure
\* with the exit code, the spawn failure, the timeout.
ScanErrors ==
    {Rejected("failed with code", code) : code \in ExitCodes \ {0}}
        \cup {Rejected("spawn error", 0), Rejected("timed out", 0)}

\* C37: every call of the runner settles exactly once, with the success of a
\* close with exit code 0 or with one of the three errors: the promise is
\* pending until the first resolve or reject call, carries the outcome of that
\* call ever after, whatever calls follow, and is settled once the process has
\* closed.
C37_SettlesExactlyOnce ==
    \A run \in ScanRuns :
        LET settles == SettleCalls(run.log)
            first == run.log[CHOOSE i \in settles : \A j \in settles : i <= j]
        IN  /\ run.proc = "closed" => settles # {}
            /\ IF settles = {}
               THEN run.promise = Pending
               ELSE IF first.kind = "resolve"
                    THEN /\ run.promise = Resolved(run.du.sizeMap)
                         /\ run.proc = "closed"
                         /\ run.exitCode = 0
                    ELSE /\ run.promise = first.error
                         /\ first.error \in ScanErrors

\* A run that timed out, whose killed process closed afterwards: the close
\* handler's reject came second and the promise carries the timeout error.
C37_Witness ==
    \E run \in ScanRuns :
        /\ run.proc = "closed"
        /\ Cardinality(SettleCalls(run.log)) = 2
        /\ run.log[Len(run.log)] = RejectCall("failed with code", NoExitCode)
        /\ run.promise = Rejected("timed out", 0)

\* C38: a progress event with isComplete = true is emitted only by a run
\* whose promise is resolved, and no progress event of the run follows it.
C38_CompleteOnlyOnSuccess ==
    \A run \in ScanRuns :
        \A i \in CompleteEvents(run.log) :
            /\ run.promise.state = "resolved"
            /\ \A j \in DOMAIN run.log : j > i => run.log[j].kind # "progress"

\* C39: once every loadDirectory call has settled, a listing on display is
\* the listing that was fetched for this.currentPath, and so is this.data.
C39_DisplayIsOfCurrentPath ==
    ((\A r \in Slots : req[r].pc = "idle") /\ app.shown.kind = "listing") =>
        /\ app.shown.path = app.currentPath
        /\ app.data.path = app.currentPath

====
